---- MODULE Spec2Model ----
(***************************************************************************)
(* A model of pylint-ignore's catalog subsystem:                           *)
(*   src/src/pylint_ignore/catalog.py   (relocation, context, load, dump)  *)
(*   src/src/pylint_ignore/__main__.py  (the merge callback and main)      *)
(*                                                                         *)
(* Text is modelled structurally.  A source line is a record               *)
(*   [ind, tok, ws]: ind leading blanks, the body tok, ws trailing blanks, *)
(* followed by its line terminator.  A whitespace-only line has tok = ""   *)
(* and ws = 0 (its blanks are counted in ind).                             *)
(***************************************************************************)
EXTENDS Integers, Sequences, FiniteSets, TLC

VARIABLES
    pc,              \* position of the modelled run
    src_lines,       \* find: the lines of the file read_source_lines returns
    old_source_line, \* find: the recorded text of the line
    old_lineno,      \* find: the recorded line number
    ret,             \* find: the outcome of the call
    fs,                  \* the source files that can be opened: path -> lines
    old_ignore_catalog,  \* main: the catalog loaded at the start of the run
    new_ignore_catalog,  \* main: the catalog populated by the callback
    default_author,      \* main: get_author_name() of this run
    default_date,        \* main: the time of this run
    enabled,             \* main: per key, what the callback last returned
    n_findings,          \* main: number of callbacks so far
    cat_writes,          \* number of times the catalog file was replaced
    blocks,              \* load: the blocks the catalog file was written from
    catalog_file,        \* load: the lines of the catalog file
    loaded,              \* load: the outcome of load on the first catalog file
    reloaded,            \* load: the outcome of load on the dumped catalog
    findings,            \* repeat: the findings of one pass, in order
    decisions,           \* repeat: what the callback returned, call by call
    first_pass,          \* repeat: new_ignore_catalog at the end of the first pass
    edited_lines,        \* shift: the file after lines were inserted
    insert_at,           \* shift: the number of lines before the inserted ones
    ret_edited,          \* shift: the outcome of the call on the edited file
    dump_catalog,        \* dumps: the catalog handed to dumps, as the sequence of its items
    catalog_text,        \* dumps: the text dumps returned for it
    reordered_text,      \* dumps: the text dumps returned for the same items inserted in another order
    disk,                \* atomic: the catalog file and its .tmp file: the text of each, None when it does not exist
    old_target,          \* atomic: the catalog file as it was when dump was called
    dump_arg,            \* atomic: the catalog handed to dump
    dump_text,           \* atomic: catalog_text of dump
    read_lines,          \* read: the lines of the file read_source_text is called on
    read_new_lineno,     \* read: its argument new_lineno
    read_old_lineno,     \* read: its argument old_lineno
    read_ret,            \* read: the SourceText it returned
    read_entry_text,     \* read: the text _dumps_entry wrote for an entry with that SourceText
    src_cache,           \* cache: _SRC_CACHE: its items in the order of insertion, each a path with the list object stored for it
    src_disk,            \* cache: the source files on disk: the lines of each, None for a file that cannot be opened
    cache_log,           \* cache: the calls of read_source_lines so far, each with what it returned
    n_edits,             \* cache: the number of edits made to source files
    iter_file,           \* iter: the lines of the catalog file _iter_entry_values reads
    iter_out,            \* iter: what the generator yielded and whether it raised
    fenced_src,          \* fenced: the lines of the source file p.py, some of which read like lines of a catalog file
    fenced_targets,      \* fenced: the target lines of the two entries of the catalog
    fenced_file,         \* fenced: the characters of the catalog file dump wrote, line by line
    fenced_out,          \* fenced: what _iter_entry_values yielded on that file
    race_pc,             \* race: the step each of the two processes is at in dump
    race_paths,          \* race: the directory: for the catalog file and its .tmp file the number of the file the name stands for, 0 when there is none
    race_files,          \* race: the files of the disk by number, each the text it holds
    race_fd,             \* race: the file each process has open for writing and its position in it
    race_overlap,        \* race: a process has opened the .tmp file while the other was between its open and its move
    race_old,            \* race: the catalog file as it was before the two calls
    term_file,           \* term: the lines of the catalog file load is run on
    term_src,            \* term: the lines of the source file p.py
    term_at,             \* term: the loop load is in: iter, fence, init, find, scan, resume, or done or raised once it is over
    term_i,              \* term: the number of catalog lines next(lines) has handed out
    term_ev,             \* term: entry_vals of the generator
    term_pending,        \* term: the entry_vals yielded to the loop of load
    term_resume,         \* term: where the generator goes on after the yield: header or eof
    term_fence,          \* term: the index of the fence line that opened the block being consumed
    term_offset,         \* term: offset of find_source_text_lineno
    term_lineno,         \* term: new_lineno, the line number find_source_text_lineno returned
    term_idx,            \* term: maybe_def_idx of read_source_text
    term_out             \* term: the outcome of every round of the loop of load so far

findVars  == <<src_lines, old_source_line, old_lineno, ret>>
mergeVars == <<fs, old_ignore_catalog, new_ignore_catalog, default_author,
               default_date, enabled, n_findings, cat_writes>>
loadVars  == <<blocks, catalog_file, loaded, reloaded>>
repeatVars == <<findings, decisions, first_pass>>
shiftVars == <<edited_lines, insert_at, ret_edited>>
dumpsVars == <<dump_catalog, catalog_text, reordered_text>>
atomicVars == <<disk, old_target, dump_arg, dump_text>>
readVars == <<read_lines, read_new_lineno, read_old_lineno, read_ret, read_entry_text>>
cacheVars == <<src_cache, src_disk, cache_log, n_edits>>
iterVars == <<iter_file, iter_out>>
fencedVars == <<fenced_src, fenced_targets, fenced_file, fenced_out>>
raceVars == <<race_pc, race_paths, race_files, race_fd, race_overlap, race_old>>
termVars == <<term_file, term_src, term_at, term_i, term_ev, term_pending, term_resume, term_fence, term_offset, term_lineno, term_idx, term_out>>
extraVars == <<repeatVars, shiftVars, dumpsVars, atomicVars, readVars, cacheVars, iterVars, fencedVars, raceVars, termVars>>
repeatOthers == <<findVars, loadVars, shiftVars, dumpsVars, atomicVars, readVars, cacheVars, iterVars, fencedVars, raceVars, termVars>>
shiftOthers == <<mergeVars, loadVars, repeatVars, dumpsVars, atomicVars, readVars, cacheVars, iterVars, fencedVars, raceVars, termVars>>
dumpsOthers == <<findVars, mergeVars, loadVars, repeatVars, shiftVars, atomicVars, readVars, cacheVars, iterVars, fencedVars, raceVars, termVars>>
atomicOthers == <<findVars, mergeVars, loadVars, repeatVars, shiftVars, dumpsVars, readVars, cacheVars, iterVars, fencedVars, raceVars, termVars>>
readOthers == <<findVars, mergeVars, loadVars, repeatVars, shiftVars, dumpsVars, atomicVars, cacheVars, iterVars, fencedVars, raceVars, termVars>>
cacheOthers == <<findVars, mergeVars, loadVars, repeatVars, shiftVars, dumpsVars, atomicVars, readVars, iterVars, fencedVars, raceVars, termVars>>
iterOthers == <<findVars, mergeVars, loadVars, repeatVars, shiftVars, dumpsVars, atomicVars, readVars, cacheVars, fencedVars, raceVars, termVars>>
fencedOthers == <<findVars, mergeVars, loadVars, repeatVars, shiftVars, dumpsVars, atomicVars, readVars, cacheVars, iterVars, raceVars, termVars>>
raceOthers == <<findVars, mergeVars, loadVars, repeatVars, shiftVars, dumpsVars, atomicVars, readVars, cacheVars, iterVars, fencedVars, termVars>>
termOthers == <<findVars, mergeVars, loadVars, repeatVars, shiftVars, dumpsVars, atomicVars, readVars, cacheVars, iterVars, fencedVars, raceVars>>
vars == <<pc, findVars, mergeVars, loadVars, extraVars>>

\* the value of the variables a specification does not use
Idle == <<>>
FindIdle ==
    /\ src_lines = Idle /\ old_source_line = Idle /\ old_lineno = Idle /\ ret = Idle
MergeIdle ==
    /\ fs = Idle /\ old_ignore_catalog = Idle /\ new_ignore_catalog = Idle
    /\ default_author = Idle /\ default_date = Idle /\ enabled = Idle
    /\ n_findings = Idle /\ cat_writes = Idle
LoadIdle ==
    /\ blocks = Idle /\ catalog_file = Idle /\ loaded = Idle /\ reloaded = Idle
RepeatIdle ==
    /\ findings = Idle /\ decisions = Idle /\ first_pass = Idle
ShiftIdle ==
    /\ edited_lines = Idle /\ insert_at = Idle /\ ret_edited = Idle
DumpsIdle ==
    /\ dump_catalog = Idle /\ catalog_text = Idle /\ reordered_text = Idle
AtomicIdle ==
    /\ disk = Idle /\ old_target = Idle /\ dump_arg = Idle /\ dump_text = Idle
ReadIdle ==
    /\ read_lines = Idle /\ read_new_lineno = Idle /\ read_old_lineno = Idle /\ read_ret = Idle /\ read_entry_text = Idle
CacheIdle ==
    /\ src_cache = Idle /\ src_disk = Idle /\ cache_log = Idle /\ n_edits = Idle
IterIdle ==
    /\ iter_file = Idle /\ iter_out = Idle
FencedIdle ==
    /\ fenced_src = Idle /\ fenced_targets = Idle /\ fenced_file = Idle /\ fenced_out = Idle
RaceIdle ==
    /\ race_pc = Idle /\ race_paths = Idle /\ race_files = Idle /\ race_fd = Idle /\ race_overlap = Idle /\ race_old = Idle
TermIdle ==
    /\ term_file = Idle /\ term_src = Idle /\ term_at = Idle /\ term_i = Idle /\ term_ev = Idle /\ term_pending = Idle /\ term_resume = Idle /\ term_fence = Idle /\ term_offset = Idle /\ term_lineno = Idle /\ term_idx = Idle /\ term_out = Idle
ExtraIdle == RepeatIdle /\ ShiftIdle /\ DumpsIdle /\ AtomicIdle /\ ReadIdle /\ CacheIdle /\ IterIdle /\ FencedIdle /\ RaceIdle /\ TermIdle
RepeatOthersIdle == FindIdle /\ LoadIdle /\ ShiftIdle /\ DumpsIdle /\ AtomicIdle /\ ReadIdle /\ CacheIdle /\ IterIdle /\ FencedIdle /\ RaceIdle /\ TermIdle
ShiftOthersIdle == MergeIdle /\ LoadIdle /\ RepeatIdle /\ DumpsIdle /\ AtomicIdle /\ ReadIdle /\ CacheIdle /\ IterIdle /\ FencedIdle /\ RaceIdle /\ TermIdle
DumpsOthersIdle == FindIdle /\ MergeIdle /\ LoadIdle /\ RepeatIdle /\ ShiftIdle /\ AtomicIdle /\ ReadIdle /\ CacheIdle /\ IterIdle /\ FencedIdle /\ RaceIdle /\ TermIdle
AtomicOthersIdle == FindIdle /\ MergeIdle /\ LoadIdle /\ RepeatIdle /\ ShiftIdle /\ DumpsIdle /\ ReadIdle /\ CacheIdle /\ IterIdle /\ FencedIdle /\ RaceIdle /\ TermIdle
ReadOthersIdle == FindIdle /\ MergeIdle /\ LoadIdle /\ RepeatIdle /\ ShiftIdle /\ DumpsIdle /\ AtomicIdle /\ CacheIdle /\ IterIdle /\ FencedIdle /\ RaceIdle /\ TermIdle
CacheOthersIdle == FindIdle /\ MergeIdle /\ LoadIdle /\ RepeatIdle /\ ShiftIdle /\ DumpsIdle /\ AtomicIdle /\ ReadIdle /\ IterIdle /\ FencedIdle /\ RaceIdle /\ TermIdle
IterOthersIdle == FindIdle /\ MergeIdle /\ LoadIdle /\ RepeatIdle /\ ShiftIdle /\ DumpsIdle /\ AtomicIdle /\ ReadIdle /\ CacheIdle /\ FencedIdle /\ RaceIdle /\ TermIdle
FencedOthersIdle == FindIdle /\ MergeIdle /\ LoadIdle /\ RepeatIdle /\ ShiftIdle /\ DumpsIdle /\ AtomicIdle /\ ReadIdle /\ CacheIdle /\ IterIdle /\ RaceIdle /\ TermIdle
RaceOthersIdle == FindIdle /\ MergeIdle /\ LoadIdle /\ RepeatIdle /\ ShiftIdle /\ DumpsIdle /\ AtomicIdle /\ ReadIdle /\ CacheIdle /\ IterIdle /\ FencedIdle /\ TermIdle
TermOthersIdle == FindIdle /\ MergeIdle /\ LoadIdle /\ RepeatIdle /\ ShiftIdle /\ DumpsIdle /\ AtomicIdle /\ ReadIdle /\ CacheIdle /\ IterIdle /\ FencedIdle /\ RaceIdle

(***************************************************************************)
(* Bounds of the model                                                     *)
(***************************************************************************)
MaxFindLines == 4
MaxMergeLines == 3
MaxOldEntries == 1
MaxFindings == 2
MaxBlocks == 2
MaxLoadLines == 3
MaxRepeatLines == 2
MaxPassFindings == 2
MaxShiftLines == 3
MaxInserted == 2
MaxDumpEntries == 3
MaxDumpFileEntries == 2
MaxReadLines == 7
MaxCacheCalls == 5
MaxEdits == 1
MaxIterBlocks == 3
MaxFencedLines == 3

(***************************************************************************)
(* Program constants                                                       *)
(***************************************************************************)
SearchRange == 100
CONTEXT_LINES == 2

(***************************************************************************)
(* Source text                                                             *)
(***************************************************************************)
Line(i, t, w) == [ind |-> i, tok |-> t, ws |-> w]

La     == Line(0, "a", 0)
LaWs   == Line(0, "a", 1)
LaInd  == Line(1, "a", 0)
Lb     == Line(0, "b", 0)
LBlank == Line(0, "", 0)

Min(S) == CHOOSE x \in S : \A y \in S : x <= y

SeqsUpTo(S, n) == UNION {[1..k -> S] : k \in 0..n}

\* str.rstrip(): the trailing blanks and the terminator go; a line of blanks
\* only becomes the empty string.
RStrip(l) == IF l.tok = "" THEN Line(0, "", 0) ELSE [l EXCEPT !.ws = 0]

(***************************************************************************)
(* find_source_text_lineno                                                 *)
(***************************************************************************)
\* mutant: the file's line is compared as it is, without rstrip
is_matching_line_exact(lines, line_idx, text) ==
    /\ 0 <= line_idx
    /\ line_idx < Len(lines)
    /\ lines[line_idx + 1] = RStrip(text)

is_matching_line(lines, line_idx, text) ==
    /\ 0 <= line_idx
    /\ line_idx < Len(lines)
    /\ RStrip(lines[line_idx + 1]) = RStrip(text)

\* mutant: only the index above the recorded line is tested
MatchingOffsets_upward(lines, text, lineno) ==
    {offset \in 0..(SearchRange - 1) :
        is_matching_line(lines, (lineno - 1) - offset, text)}

\* The offsets of range(100) at which one of the two indexes matches.  An
\* offset that puts both indexes outside of the file matches nothing, so
\* only the offsets up to the farther end of the file are looked at.
MatchingOffsets(lines, text, lineno) ==
    LET far_end == IF lineno - 1 > Len(lines) - lineno
                   THEN lineno - 1 ELSE Len(lines) - lineno
        last    == IF far_end < SearchRange - 1 THEN far_end ELSE SearchRange - 1
    IN
    {offset \in 0..last :
        \/ is_matching_line(lines, (lineno - 1) - offset, text)
        \/ is_matching_line(lines, (lineno - 1) + offset, text)}

\* mutant: only the recorded line itself is tested
find_source_text_lineno_in_place(lines, text, lineno, tie) ==
    IF is_matching_line(lines, lineno - 1, text) THEN lineno ELSE 0

\* The line number returned, 0 standing for the raised ObsoleteEntry.  The
\* inner loop iterates over a set of two indexes, whose order the language
\* does not fix: tie says which of the two is visited first.
find_source_text_lineno(lines, text, lineno, tie) ==
    LET offs == MatchingOffsets(lines, text, lineno)
    IN  IF offs = {} THEN 0
        ELSE LET offset == Min(offs)
                 lo     == (lineno - 1) - offset
                 hi     == (lineno - 1) + offset
                 first  == IF tie = "lo" THEN lo ELSE hi
                 second == IF tie = "lo" THEN hi ELSE lo
             IN  IF is_matching_line(lines, first, text)
                 THEN first + 1 ELSE second + 1

Ties == {"lo", "hi"}

(***************************************************************************)
(* Specification of relocation: one call of find_source_text_lineno on any *)
(* file, recorded text and recorded line number.                           *)
(***************************************************************************)
FindAlphabet == {La, LaWs, LaInd, Lb, LBlank}
FindTexts    == {La, LaWs, Lb, LBlank}
\* recorded line numbers near the file and at the edge of the search range
FindLinenos  == (0..(MaxFindLines + 2)) \cup {SearchRange, SearchRange + 1}

FindInit ==
    /\ pc = "start"
    /\ src_lines \in SeqsUpTo(FindAlphabet, MaxFindLines)
    /\ old_source_line \in FindTexts
    /\ old_lineno \in FindLinenos
    /\ ret = [kind |-> "none", lineno |-> 0]
    /\ MergeIdle
    /\ LoadIdle
    /\ ExtraIdle

FindCall ==
    /\ pc = "start"
    /\ \E tie \in Ties :
         LET k == find_source_text_lineno(src_lines, old_source_line, old_lineno, tie)
         IN  ret' = IF k = 0 THEN [kind |-> "ObsoleteEntry", lineno |-> 0]
                    ELSE [kind |-> "return", lineno |-> k]
    /\ pc' = "done"
    /\ UNCHANGED <<src_lines, old_source_line, old_lineno>>
    /\ UNCHANGED mergeVars
    /\ UNCHANGED extraVars
    /\ UNCHANGED loadVars

FindNext == FindCall

SpecFind == FindInit /\ [][FindNext]_vars

Abs(x) == IF x < 0 THEN -x ELSE x

\* C3: whenever find_source_text_lineno(path, text, n) returns k, k is a line
\* of the file, line k equals text up to trailing whitespace, and no matching
\* line lies strictly closer to n than k.
C3_FindReturnsClosestMatch ==
    ret.kind = "return" =>
        /\ 1 <= ret.lineno /\ ret.lineno <= Len(src_lines)
        /\ RStrip(src_lines[ret.lineno]) = RStrip(old_source_line)
        /\ \A j \in 1..Len(src_lines) :
              RStrip(src_lines[j]) = RStrip(old_source_line)
                 => Abs(j - old_lineno) >= Abs(ret.lineno - old_lineno)

\* A call that returned a line other than the recorded one, with a second
\* matching line farther away.
C3_Witness ==
    /\ ret.kind = "return"
    /\ ret.lineno # old_lineno
    /\ \E j \in 1..Len(src_lines) :
          /\ RStrip(src_lines[j]) = RStrip(old_source_line)
          /\ Abs(j - old_lineno) > Abs(ret.lineno - old_lineno)

(***************************************************************************)
(* The context window (read_context_source_text of __main__.py and         *)
(* read_source_text of catalog.py share this body).  Optional values are   *)
(* sequences: <<>> is None, <<v>> is v.                                    *)
(***************************************************************************)
None == <<>>
Some(v) == <<v>>

Max(S) == CHOOSE x \in S : \A y \in S : x >= y

DeclTokens == {"def f", "class C"}

\* line_text.strip() is empty
IsBlank(l) == l.tok = ""

\* len(line_text) - len(line_text.lstrip()): lstrip removes the whole of a
\* whitespace-only line, terminator included.
IndentLvl(l) == IF IsBlank(l) THEN l.ind + l.ws + 1 ELSE l.ind

\* The indexes (0-based, 1..line_idx: the loop runs while maybe_def_idx > 0)
\* of the non-blank, less indented lines that start with def or class.
DefCandidates(lines, line_idx) ==
    {i \in 1..line_idx :
        /\ ~IsBlank(lines[i + 1])
        /\ IndentLvl(lines[i + 1]) < IndentLvl(lines[line_idx + 1])
        /\ lines[i + 1].tok \in DeclTokens}

\* mutant: the window ends with the target line
ContextWindow_upto_target(lines, lineno) ==
    LET line_idx  == lineno - 1
        start_idx == IF line_idx - CONTEXT_LINES > 0 THEN line_idx - CONTEXT_LINES ELSE 0
        end_idx   == line_idx + 1
        cands     == DefCandidates(lines, line_idx)
        found     == cands # {} /\ Max(cands) < start_idx
    IN  [text         |-> SubSeq(lines, start_idx + 1, end_idx),
         start_idx    |-> start_idx,
         end_idx      |-> end_idx,
         def_line_idx |-> IF found THEN Some(Max(cands)) ELSE None,
         def_line     |-> IF found THEN Some(lines[Max(cands) + 1]) ELSE None]

ContextWindow(lines, lineno) ==
    LET line_idx  == lineno - 1
        start_idx == IF line_idx - CONTEXT_LINES > 0 THEN line_idx - CONTEXT_LINES ELSE 0
        end_idx   == IF line_idx + CONTEXT_LINES + 1 < Len(lines)
                     THEN line_idx + CONTEXT_LINES + 1 ELSE Len(lines)
        cands     == DefCandidates(lines, line_idx)
        found     == cands # {} /\ Max(cands) < start_idx
    IN  [text         |-> SubSeq(lines, start_idx + 1, end_idx),
         start_idx    |-> start_idx,
         end_idx      |-> end_idx,
         def_line_idx |-> IF found THEN Some(Max(cands)) ELSE None,
         def_line     |-> IF found THEN Some(lines[Max(cands) + 1]) ELSE None]

\* __main__.py: SourceText(lineno, text, start_idx, end_idx, def_line_idx, def_line)
read_context_source_text(lines, lineno) ==
    LET w == ContextWindow(lines, lineno)
    IN  [lineno |-> lineno, text |-> w.text, start_idx |-> w.start_idx,
         end_idx |-> w.end_idx, def_line_idx |-> w.def_line_idx,
         def_line |-> w.def_line]

(***************************************************************************)
(* main of __main__.py: the old catalog, the merge callback, the dump.     *)
(***************************************************************************)
Msg(id, sym, txt) == [msg_id |-> id, symbol |-> sym, msg_text |-> txt]
M1 == Msg("W0511", "fixme", "TODO")
M2 == Msg("C0303", "trailing-whitespace", "Trailing whitespace")
Msgs == {M1, M2}

CatalogKey(msg, path, ctx_src_text) ==
    [msg_id |-> msg.msg_id, path |-> path, symbol |-> msg.symbol,
     msg_text |-> msg.msg_text, ctx_src_text |-> ctx_src_text]

CatalogEntry(msg, path, author, date, srctxt) ==
    [msg_id |-> msg.msg_id, path |-> path, symbol |-> msg.symbol,
     msg_text |-> msg.msg_text, author |-> author, date |-> date,
     srctxt |-> srctxt]

\* dict assignment: catalog[key] = entry
\* mutant: the assignment replaces what the catalog held
Put_only(catalog, key, entry) == [k \in {key} |-> entry]

Put(catalog, key, entry) ==
    [k \in DOMAIN catalog \cup {key} |-> IF k = key THEN entry ELSE catalog[k]]

EmptyCatalog == [k \in {} |-> None]

\* _parse_entry of a well-formed persisted block: the context is read from
\* the source file at the persisted line number.  LIST_ITEM_RE of __main__.py
\* knows the keys message, author and date only: an "- ignored: ..." line of
\* the block (r.ignored) sets no entry value, and CatalogEntry has no field
\* for it.
MainParseEntry(files, r) ==
    LET srctxt == read_context_source_text(files[r.path], r.lineno)
    IN  [key   |-> CatalogKey(r.msg, r.path, srctxt.text),
         entry |-> CatalogEntry(r.msg, r.path, r.author, r.date, Some(srctxt))]

RECURSIVE MainLoadCatalog(_, _)
MainLoadCatalog(files, recs) ==
    IF recs = <<>> THEN EmptyCatalog
    ELSE LET n  == Len(recs)
             pe == MainParseEntry(files, recs[n])
         IN  Put(MainLoadCatalog(files, SubSeq(recs, 1, n - 1)), pe.key, pe.entry)

\* mutant: the return value is inverted for findings the old catalog lacks
is_enabled_entry_inverted(old, msg, path, src_txt, d_author, d_date) ==
    LET ctx_src_text == IF src_txt # None THEN src_txt[1].text ELSE <<>>
        catalog_key  == CatalogKey(msg, path, ctx_src_text)
        has_old      == catalog_key \in DOMAIN old
        author       == IF has_old THEN old[catalog_key].author ELSE d_author
        date         == IF has_old THEN old[catalog_key].date ELSE d_date
        new_entry    == CatalogEntry(msg, path, author, date, src_txt)
    IN  [key     |-> catalog_key,
         entry   |-> new_entry,
         enabled |-> has_old /\ old[catalog_key] # new_entry]

\* mutant: the recorded entry always takes the provenance of this run
is_enabled_entry_fresh(old, msg, path, src_txt, d_author, d_date) ==
    LET ctx_src_text == IF src_txt # None THEN src_txt[1].text ELSE <<>>
        catalog_key  == CatalogKey(msg, path, ctx_src_text)
        has_old      == catalog_key \in DOMAIN old
        new_entry    == CatalogEntry(msg, path, d_author, d_date, src_txt)
    IN  [key     |-> catalog_key,
         entry   |-> new_entry,
         enabled |-> ~(has_old /\ old[catalog_key] = new_entry)]

\* is_enabled_entry: the entry it records and the value it returns.
\* src_txt is None for a finding without a line.
is_enabled_entry(old, msg, path, src_txt, d_author, d_date) ==
    LET ctx_src_text == IF src_txt # None THEN src_txt[1].text ELSE <<>>
        catalog_key  == CatalogKey(msg, path, ctx_src_text)
        has_old      == catalog_key \in DOMAIN old
        author       == IF has_old THEN old[catalog_key].author ELSE d_author
        date         == IF has_old THEN old[catalog_key].date ELSE d_date
        new_entry    == CatalogEntry(msg, path, author, date, src_txt)
    IN  [key     |-> catalog_key,
         entry   |-> new_entry,
         enabled |-> ~(has_old /\ old[catalog_key] = new_entry)]

MergePaths    == {"p.py", "q.py"}
MergeAlphabet == {La, Lb}
OldAuthors    == {"alice"}
OldDate       == "2020-07-01T10:00:00"

\* the annotation ("- ignored: ...") the persisted blocks carry: the blocks
\* of M1 a reason, the blocks of M2 the explicit negative
FileAnnotation(msg) == IF msg.msg_id = M1.msg_id THEN "because intentional" ELSE "no"

\* the blocks a persisted catalog may hold for these files
OldRecords(files) ==
    {[msg |-> m, path |-> p, lineno |-> n, author |-> a, date |-> OldDate,
      ignored |-> FileAnnotation(m)] :
        m \in Msgs, p \in MergePaths, n \in 1..MaxMergeLines, a \in OldAuthors}

WellPlaced(files, recs) ==
    \A i \in 1..Len(recs) : recs[i].lineno <= Len(files[recs[i].path])

MergeInit ==
    /\ pc = "run"
    /\ fs \in {f \in [MergePaths -> SeqsUpTo(MergeAlphabet, MaxMergeLines)] :
                 /\ f["q.py"] = <<La>>
                 /\ f["p.py"] # <<>>}
    /\ \E recs \in SeqsUpTo(OldRecords(fs), MaxOldEntries) :
          /\ WellPlaced(fs, recs)
          /\ old_ignore_catalog = MainLoadCatalog(fs, recs)
    /\ new_ignore_catalog = EmptyCatalog
    /\ default_author = "bob"
    /\ default_date = "2020-07-18T09:00:00"
    /\ enabled = EmptyCatalog
    /\ n_findings = 0
    /\ cat_writes = 0
    /\ FindIdle
    /\ LoadIdle
    /\ ExtraIdle

\* One call of the callback from the patched is_message_enabled: a finding
\* of msg in path, on a line of the file or (line = 0) without a line.
Finding(msg, path, line) ==
    /\ pc = "run"
    /\ n_findings < MaxFindings
    /\ LET ctx_src == IF line = 0 THEN None
                      ELSE Some(read_context_source_text(fs[path], line))
           r == is_enabled_entry(old_ignore_catalog, msg, path, ctx_src,
                                 default_author, default_date)
       IN  /\ new_ignore_catalog' = Put(new_ignore_catalog, r.key, r.entry)
           /\ enabled' = Put(enabled, r.key, r.enabled)
    /\ n_findings' = n_findings + 1
    /\ UNCHANGED <<pc, fs, old_ignore_catalog, default_author, default_date, cat_writes>>
    /\ UNCHANGED findVars
    /\ UNCHANGED extraVars
    /\ UNCHANGED loadVars

\* _dumps_entry of __main__.py reads entry.srctxt.end_idx before it tests
\* entry.srctxt: an entry without source text raises AttributeError.
MainDumpRaises(catalog) ==
    \E k \in DOMAIN catalog : catalog[k].srctxt = None

\* The end of main: _dump_catalog(new_ignore_catalog), whatever the catalogs hold.
RunEnd ==
    /\ pc = "run"
    /\ IF MainDumpRaises(new_ignore_catalog)
       THEN pc' = "raised" /\ cat_writes' = cat_writes
       ELSE pc' = "done" /\ cat_writes' = cat_writes + 1
    /\ UNCHANGED <<fs, old_ignore_catalog, new_ignore_catalog, default_author,
                   default_date, enabled, n_findings>>
    /\ UNCHANGED findVars
    /\ UNCHANGED extraVars
    /\ UNCHANGED loadVars

\* where the analyzer reports: any line of p.py, p.py as a whole, q.py's line
FindingPlaces(files) ==
    {<<"p.py", n>> : n \in 0..Len(files["p.py"])} \cup {<<"q.py", 1>>}

MergeNext ==
    \/ \E msg \in Msgs, place \in FindingPlaces(fs) : Finding(msg, place[1], place[2])
    \/ RunEnd

SpecMerge == MergeInit /\ [][MergeNext]_vars

SeenKeys == DOMAIN new_ignore_catalog
OldKeys  == DOMAIN old_ignore_catalog

\* C1: a finding whose Key equals the Key of an entry of the old catalog is
\* reported as suppressed (the callback returns False), whatever line the
\* finding is on and whatever line the old entry was recorded at.
C1_SameKeySuppressed ==
    \A k \in SeenKeys \cap OldKeys : enabled[k] = FALSE

\* C2: a finding whose Key is absent from the old catalog is surfaced (the
\* callback returns True) and its recorded entry carries the default author
\* and the default date of the run.
C2_AbsentKeySurfacedWithDefaults ==
    \A k \in SeenKeys \ OldKeys :
        /\ enabled[k] = TRUE
        /\ new_ignore_catalog[k].author = default_author
        /\ new_ignore_catalog[k].date = default_date

\* A finding with a new Key was processed in a run whose old catalog holds
\* an entry of the same message in the same file.
C2_Witness ==
    \E k \in SeenKeys \ OldKeys :
        \E o \in OldKeys : o.msg_id = k.msg_id /\ o.path = k.path

\* C10: the entry recorded for a finding whose Key is in the old catalog
\* carries the author and the date of the old entry.
C10_ProvenanceInherited ==
    \A k \in SeenKeys \cap OldKeys :
        /\ new_ignore_catalog[k].author = old_ignore_catalog[k].author
        /\ new_ignore_catalog[k].date = old_ignore_catalog[k].date

\* A finding with an old Key was recorded, and the old entry's author and
\* date are not those of this run.
C10_Witness ==
    \E k \in SeenKeys \cap OldKeys :
        /\ old_ignore_catalog[k].author # default_author
        /\ old_ignore_catalog[k].date # default_date

\* the annotation an entry carries, None if it carries none
AnnotationOf(entry) ==
    IF "ignored" \in DOMAIN entry THEN Some(entry.ignored) ELSE None

NegativeAnnotations == {"no", "n"}

\* C11: the entry recorded for a finding whose Key is in the old catalog
\* carries the annotation of the persisted entry of that Key, and the
\* finding is surfaced if that annotation is an explicit negative and
\* suppressed otherwise.
C11_AnnotationInheritedAndFollowed ==
    \A k \in SeenKeys \cap OldKeys :
        /\ AnnotationOf(new_ignore_catalog[k]) = Some(FileAnnotation(k))
        /\ enabled[k] = (FileAnnotation(k) \in NegativeAnnotations)

\* C7: at the end of a run the catalog file is rewritten only if the new
\* catalog differs from the old one: a run that observed exactly the
\* findings already recorded leaves the file untouched.
C7_RewrittenOnlyIfChanged ==
    (pc = "done" /\ OldKeys # {} /\ new_ignore_catalog = old_ignore_catalog)
        => cat_writes = 0

(***************************************************************************)
(* catalog.py: the persisted catalog file.  A line of the file is a record *)
(* [k, v]: k says which of the loader's patterns the line matches, v holds *)
(* the groups of the match.                                                *)
(*   "file"   ## File: <path>                                              *)
(*   "entry"  ### Line <lineno> - <msg_id> (<symbol>)                      *)
(*   "item"   - <key>: <value>                                             *)
(*   "fence"  a line of three backticks                                    *)
(*   "src"    a numbered line of a fenced block: "> N: text", "  N: text", *)
(*            or, with pad = FALSE, "> N:" and "  N:" with nothing after   *)
(*            the colon                                                    *)
(*   "dots"   the truncation line "  ..."                                  *)
(*   "empty"  an empty line                                                *)
(***************************************************************************)
FileHeaderLine(path) == [k |-> "file", v |-> path]
EntryHeaderLine(lineno, msg) ==
    [k |-> "entry", v |-> [lineno |-> lineno, msg_id |-> msg.msg_id, symbol |-> msg.symbol]]
ListItemLine(key, value) == [k |-> "item", v |-> [key |-> key, value |-> value]]
FenceLine == [k |-> "fence", v |-> "fence"]
SrcLine(mark, lineno, pad, text) ==
    [k |-> "src", v |-> [mark |-> mark, lineno |-> lineno, pad |-> pad, text |-> text]]
DotsLine  == [k |-> "dots", v |-> "..."]
EmptyLine == [k |-> "empty", v |-> ""]

\* FILE_HEADER_RE, ENTRY_HEADER_RE (the line number is \d+), LIST_ITEM_RE
IsFileHeader(l)  == l.k = "file"
IsEntryHeader(l) == l.k = "entry" /\ l.v.lineno >= 0
IsListItem(l)    == l.k = "item" /\ l.v.key \in {"message", "author", "date", "ignored"}

\* The text of a line of the catalog file, read as if it were a source line
\* (what .* captures when it runs over a whole line of the fenced block).
RawText(l) ==
    IF l.k = "empty" THEN Line(0, "", 0)
    ELSE [ind |-> 0, tok |-> "catalog line", ws |-> 0, of |-> l]

\* dict assignment on entry_vals
EvPut(ev, key, value) ==
    [x \in DOMAIN ev \cup {key} |-> IF x = key THEN value ELSE ev[x]]

NoVals == [x \in {} |-> 0]

\* _parse_ctx_src_text: the index of the first line at or after i that closes
\* the fence, 0 when the file ends first (next() raises StopIteration).
RECURSIVE CloseFence(_, _)
CloseFence(lines, i) ==
    IF i > Len(lines) THEN 0
    ELSE IF lines[i].k = "fence" THEN i
    ELSE CloseFence(lines, i + 1)

\* _iter_entry_values from line i on, entry_vals being ev and ys the values
\* yielded so far.  raised: the generator raised KeyError at
\* entry_vals["path"] after its last yield.
RECURSIVE IterEntryValues(_, _, _, _)
IterEntryValues(lines, i, ev, ys) ==
    LET last == [yields |-> IF "msg_id" \in DOMAIN ev THEN Append(ys, ev) ELSE ys,
                 raised |-> FALSE]
    IN
    IF i > Len(lines) THEN last
    ELSE LET line == lines[i] IN
      IF line.k = "fence"
      THEN LET j == CloseFence(lines, i + 1)
           IN  IF j = 0 THEN last
               ELSE IterEntryValues(lines, j + 1,
                        EvPut(ev, "ctx_src_text", SubSeq(lines, i, j)), ys)
      ELSE IF IsFileHeader(line) \/ IsEntryHeader(line)
      THEN LET done == "msg_id" \in DOMAIN ev
               ys2  == IF done THEN Append(ys, ev) ELSE ys
           IN  IF done /\ "path" \notin DOMAIN ev
               THEN [yields |-> ys2, raised |-> TRUE]
               ELSE LET ev1 == IF done THEN EvPut(NoVals, "path", ev["path"]) ELSE ev
                        ev2 == IF IsFileHeader(line)
                               THEN EvPut(NoVals, "path", line.v)
                               ELSE EvPut(EvPut(EvPut(EvPut(ev1,
                                        "catalog_lineno", i),
                                        "lineno", line.v.lineno),
                                        "msg_id", line.v.msg_id),
                                        "symbol", line.v.symbol)
                    IN  IterEntryValues(lines, i + 1, ev2, ys2)
      ELSE IF IsListItem(line)
      THEN IterEntryValues(lines, i + 1, EvPut(ev, line.v.key, line.v.value), ys)
      ELSE IterEntryValues(lines, i + 1, ev, ys)

_iter_entry_values(lines) == IterEntryValues(lines, 1, NoVals, <<>>)

(***************************************************************************)
(* SOURCE_TEXT_RE.match on the lines between the two fences.  The white    *)
(* space patterns run over empty lines; an optional context group takes    *)
(* one unmarked numbered line, and two lines when nothing follows the      *)
(* colon of the first: its optional white space then takes the line break  *)
(* and its wildcard the whole next line.                                   *)
(***************************************************************************)
RECURSIVE SkipEmpty(_, _)
SkipEmpty(inner, p) ==
    IF p <= Len(inner) /\ inner[p].k = "empty" THEN SkipEmpty(inner, p + 1) ELSE p

IsCtxLine(inner, p) == p <= Len(inner) /\ inner[p].k = "src" /\ ~inner[p].v.mark

\* positions after one optional context group that starts at p
AfterCtx(inner, p) ==
    LET e == SkipEmpty(inner, p)
    IN  {p} \cup
        (IF IsCtxLine(inner, e)
         THEN {e + 1} \cup (IF ~inner[e].v.pad /\ e < Len(inner) THEN {e + 2} ELSE {})
         ELSE {})

\* positions after the optional group of the enclosing header and "..."
AfterDefDots(inner, p) ==
    LET e == SkipEmpty(inner, p)
        d == IF IsCtxLine(inner, e) /\ inner[e].v.pad THEN SkipEmpty(inner, e + 1) ELSE e
    IN  {p} \cup
        (IF e <= Len(inner) /\ inner[e].k = "dots" THEN {e + 1} ELSE {}) \cup
        (IF d <= Len(inner) /\ inner[d].k = "dots" THEN {d + 1} ELSE {})

\* the part before the marked line at m can be matched
PreOK(inner, m) ==
    \E p1 \in AfterDefDots(inner, 1) : \E p2 \in AfterCtx(inner, p1) :
        \E p3 \in AfterCtx(inner, p2) : SkipEmpty(inner, p3) = m

\* the part from p on can be matched up to the closing fence
PostOK(inner, p) ==
    \E p1 \in AfterCtx(inner, p) : \E p2 \in AfterCtx(inner, p1) :
        SkipEmpty(inner, p2) = Len(inner) + 1

\* The group source_line, as Some(text), or None when the pattern does not
\* match.  ctx_src_text runs from the opening to the closing fence.
SourceTextMatch(ctx_src_text) ==
    LET inner  == SubSeq(ctx_src_text, 2, Len(ctx_src_text) - 1)
        marked == {p \in 1..Len(inner) : inner[p].k = "src" /\ inner[p].v.mark}
    IN  IF marked = {} THEN None
        ELSE LET m == Min(marked) IN
             IF ~PreOK(inner, m) THEN None
             ELSE IF inner[m].v.pad
                  THEN IF PostOK(inner, m + 1) THEN Some(inner[m].v.text) ELSE None
                  ELSE IF m < Len(inner) /\ PostOK(inner, m + 2)
                       THEN Some(RawText(inner[m + 1]))
                       ELSE IF PostOK(inner, m + 1) THEN Some(Line(0, "", 0))
                       ELSE None

(***************************************************************************)
(* catalog.py: building an entry from the values of a block, and load.     *)
(* files maps the path of every file that can be opened to its lines.      *)
(***************************************************************************)
CanOpen(files, path) == path \in DOMAIN files

\* the mutant of read_source_text that keeps the persisted line number
read_source_text_stale(lines, new_lineno, old_no) ==
    LET w == ContextWindow(lines, new_lineno)
    IN  [new_lineno |-> old_no, old_lineno |-> old_no, text |-> w.text,
         start_idx |-> w.start_idx, end_idx |-> w.end_idx,
         def_line_idx |-> w.def_line_idx, def_line |-> w.def_line]

\* catalog.py: SourceText(new_lineno, old_lineno, text, start_idx, end_idx,
\* def_line_idx, def_line)
read_source_text(lines, new_lineno, old_no) ==
    LET w == ContextWindow(lines, new_lineno)
    IN  [new_lineno |-> new_lineno, old_lineno |-> old_no, text |-> w.text,
         start_idx |-> w.start_idx, end_idx |-> w.end_idx,
         def_line_idx |-> w.def_line_idx, def_line |-> w.def_line]

Key(entry, ctx_src_text) ==
    [msg_id |-> entry.msg_id, path |-> entry.path, symbol |-> entry.symbol,
     msg_text |-> entry.msg_text, ctx_src_text |-> ctx_src_text]

Entry(msg_id, path, symbol, msg_text, author, date, ignored, srctxt) ==
    [msg_id |-> msg_id, path |-> path, symbol |-> symbol, msg_text |-> msg_text,
     author |-> author, date |-> date, ignored |-> ignored, srctxt |-> srctxt]

Failed(kind) == [kind |-> kind]

\* _init_entry_item: [kind |-> "ok", key, entry], or the exception it raises,
\* in the order in which the code reaches them.
_init_entry_item(files, entry_vals, tie) ==
    IF "ctx_src_text" \notin DOMAIN entry_vals THEN Failed("KeyError")
    ELSE LET old_source_text_match == SourceTextMatch(entry_vals["ctx_src_text"]) IN
    IF old_source_text_match = None THEN Failed("ObsoleteEntry")
    ELSE IF "path" \notin DOMAIN entry_vals THEN Failed("KeyError")
    ELSE LET path == entry_vals["path"] IN
    IF ~CanOpen(files, path) THEN Failed("OSError")
    ELSE LET old_no == entry_vals["lineno"]
             new_lineno == find_source_text_lineno(
                               files[path], old_source_text_match[1], old_no, tie)
         IN
    IF new_lineno = 0 THEN Failed("ObsoleteEntry")
    ELSE IF {"message", "author", "date"} \ DOMAIN entry_vals # {} THEN Failed("KeyError")
    ELSE LET srctxt == read_source_text(files[path], new_lineno, old_no)
             catalog_entry == Entry(entry_vals["msg_id"], path, entry_vals["symbol"],
                                    entry_vals["message"], entry_vals["author"],
                                    entry_vals["date"],
                                    IF "ignored" \in DOMAIN entry_vals
                                    THEN Some(entry_vals["ignored"]) ELSE None,
                                    Some(srctxt))
         IN  [kind  |-> "ok",
              key   |-> Key(catalog_entry, srctxt.text),
              entry |-> catalog_entry]

\* catalog[catalog_key] = catalog_entry on an OrderedDict, kept as the
\* sequence of its items
SetItem(items, key, entry) ==
    IF \E i \in 1..Len(items) : items[i].key = key
    THEN [i \in 1..Len(items) |->
             IF items[i].key = key THEN [key |-> key, entry |-> entry] ELSE items[i]]
    ELSE Append(items, [key |-> key, entry |-> entry])

\* The outcome of one round of the loop of load on entry_vals, item being
\* what _init_entry_item returned or raised:
\*   "loaded"   the entry was put into the catalog
\*   "obsolete" ObsoleteEntry was raised and passed over
\*   "logged"   KeyError was raised and the error logged
\*   "KeyError" the handler of KeyError raised KeyError at entry_vals["path"]
\*   "OSError"  the source file could not be opened; load has no handler
LoadOutcome(item, entry_vals) ==
    IF item.kind = "ok" THEN "loaded"
    ELSE IF item.kind = "ObsoleteEntry" THEN "obsolete"
    ELSE IF item.kind = "OSError" THEN "OSError"
    ELSE IF "path" \in DOMAIN entry_vals THEN "logged" ELSE "KeyError"

Raises == {"KeyError", "OSError"}

\* one round of the loop of load, acc being what load has built so far
LoadRound(files, entry_vals, tie, acc) ==
    LET item    == _init_entry_item(files, entry_vals, tie)
        outcome == LoadOutcome(item, entry_vals)
    IN  [catalog  |-> IF outcome = "loaded"
                      THEN SetItem(acc.catalog, item.key, item.entry) ELSE acc.catalog,
         logged   |-> IF outcome = "logged"
                      THEN Append(acc.logged, entry_vals["catalog_lineno"]) ELSE acc.logged,
         raised   |-> IF outcome \in Raises THEN outcome ELSE "none",
         outcomes |-> Append(acc.outcomes, outcome),
         vals     |-> Append(acc.vals, entry_vals)]

\* the loop of load from the i-th yielded entry_vals on; the generator may
\* raise KeyError when it is resumed after its last yield
RECURSIVE LoadFrom(_, _, _, _, _)
LoadFrom(files, it, i, ties, acc) ==
    IF acc.raised # "none" THEN acc
    ELSE IF i > Len(it.yields)
    THEN [acc EXCEPT !.raised = IF it.raised THEN "KeyError" ELSE "none"]
    ELSE LoadFrom(files, it, i + 1, ties, LoadRound(files, it.yields[i], ties[i], acc))

\* load, it being _iter_entry_values(catalog_path): the catalog (returned
\* when raised = "none"), the catalog line
\* numbers of the logged errors, the exception raised out of load, and, for
\* every round of the loop that was run, its entry_vals and its outcome.
load(files, it, ties) ==
    LoadFrom(files, it, 1, ties,
             [catalog |-> <<>>, logged |-> <<>>, raised |-> "none",
              outcomes |-> <<>>, vals |-> <<>>])


(***************************************************************************)
(* catalog.py: _dumps_entry, dumps and dump.  The text written is the      *)
(* sequence of its lines.                                                  *)
(***************************************************************************)
\* the lines of ctx_src_text
DumpsSrcLines(srctxt) ==
    LET lineno   == srctxt.new_lineno
        has_def  == srctxt.def_line # None /\ srctxt.def_line_idx # None
                    /\ srctxt.def_line_idx[1] # 0
        def_no   == srctxt.def_line_idx[1] + 1
        def_part == IF ~has_def THEN <<>>
                    ELSE <<SrcLine(FALSE, def_no, TRUE, RStrip(srctxt.def_line[1]))>>
                         \o (IF def_no + CONTEXT_LINES < lineno THEN <<DotsLine>> ELSE <<>>)
        ctx_part == [offset \in 1..Len(srctxt.text) |->
                       LET line       == srctxt.text[offset]
                           src_lineno == srctxt.start_idx + offset
                       IN  IF IsBlank(line)
                           THEN SrcLine(lineno = src_lineno, src_lineno, FALSE, Line(0, "", 0))
                           ELSE SrcLine(lineno = src_lineno, src_lineno, TRUE, line)]
    IN  def_part \o ctx_part

\* ENTRY_TEMPLATE, filled in, without its leading line break
_dumps_entry(entry) ==
    LET lineno == IF entry.srctxt = None THEN 0 - 1 ELSE entry.srctxt[1].new_lineno
        ctx    == IF entry.srctxt = None THEN <<EmptyLine>>
                  ELSE DumpsSrcLines(entry.srctxt[1])
        ignored_line == IF entry.ignored = None THEN EmptyLine
                        ELSE ListItemLine("ignored", entry.ignored[1])
    IN  <<EntryHeaderLine(lineno, entry), EmptyLine,
          ListItemLine("message", entry.msg_text),
          ListItemLine("author", entry.author),
          ListItemLine("date", entry.date),
          ignored_line, EmptyLine, FenceLine>>
        \o ctx \o <<FenceLine, EmptyLine, EmptyLine>>

\* the order of the paths as strings
PathOrd(path) == IF path = "p.py" THEN 1 ELSE 2

\* mutant: the sort key is the path alone
SortsBefore_by_path(e1, e2) == PathOrd(e1.path) < PathOrd(e2.path)

\* The sort key (e.path, e.srctxt and e.srctxt.new_lineno) of e1 precedes
\* that of e2.  Two keys of one path with None in the place of the line
\* number are equal.
SortsBefore(e1, e2) ==
    \/ PathOrd(e1.path) < PathOrd(e2.path)
    \/ /\ e1.path = e2.path
       /\ e1.srctxt # None /\ e2.srctxt # None
       /\ e1.srctxt[1].new_lineno < e2.srctxt[1].new_lineno

\* entries.sort raises TypeError: the keys of two entries of one path are
\* compared of which one has None and the other a line number
DumpsRaises(items) ==
    \E i, j \in 1..Len(items) :
        /\ items[i].entry.path = items[j].entry.path
        /\ items[i].entry.srctxt = None
        /\ items[j].entry.srctxt # None

\* list.sort is stable: an entry is inserted behind the entries that do not
\* sort after it
RECURSIVE SortEntries(_)
SortEntries(entries) ==
    IF entries = <<>> THEN <<>>
    ELSE LET n      == Len(entries)
             sorted == SortEntries(SubSeq(entries, 1, n - 1))
             e      == entries[n]
             before == {i \in 1..Len(sorted) : SortsBefore(e, sorted[i])}
             at     == IF before = {} THEN Len(sorted) + 1 ELSE Min(before)
         IN  SubSeq(sorted, 1, at - 1) \o <<e>> \o SubSeq(sorted, at, Len(sorted))

\* CATALOG_HEADER holds no line that the loader takes for a header, a list
\* item or a fence
CATALOG_HEADER == <<[k |-> "text", v |-> "CATALOG_HEADER"], EmptyLine, EmptyLine>>

RECURSIVE DumpsChunks(_, _, _)
DumpsChunks(entries, i, seen_paths) ==
    IF i > Len(entries) THEN <<>>
    ELSE LET entry == entries[i]
             head  == IF entry.path \notin seen_paths
                      THEN <<FileHeaderLine(entry.path), EmptyLine>> ELSE <<>>
         IN  head \o _dumps_entry(entry)
                  \o DumpsChunks(entries, i + 1, seen_paths \cup {entry.path})

\* dumps; the catalog file lies in the working directory, so that the path
\* written is the path the loader resolves
dumps(items) ==
    CATALOG_HEADER
    \o DumpsChunks(SortEntries([i \in 1..Len(items) |-> items[i].entry]), 1, {})

(***************************************************************************)
(* The catalog files load is run on.  A file is written as a sequence of   *)
(* blocks; a block is the text of one entry, in the layout of              *)
(* ENTRY_TEMPLATE, with or without a file header before it, and with one   *)
(* of the defects a catalog file that was edited by hand can have.         *)
(***************************************************************************)
Block(hdr, lineno, text, pad, msg, ignored, defect) ==
    [hdr |-> hdr, lineno |-> lineno, text |-> text, pad |-> pad, msg |-> msg,
     ignored |-> ignored, defect |-> defect]

Defects == {"no message", "no author", "no date",
            "no fence", "no marked line", "unterminated fence"}

\* entries of p.py on a line of text and on an empty line, the empty line
\* written with and without a blank after the colon
GoodBlocks ==
    {Block(Some("p.py"), 1, La, TRUE, M1, None, "none"),
     Block(Some("p.py"), 3, La, TRUE, M1, Some("because intentional"), "none"),
     Block(Some("p.py"), 3, LBlank, TRUE, M1, None, "none"),
     Block(Some("p.py"), 1, LBlank, FALSE, M1, None, "none")}

\* an entry under the file header of the block before it, if there is one
BareBlock == Block(None, 2, La, TRUE, M1, None, "none")

\* an entry of a file that cannot be opened
LostFileBlock == Block(Some("q.py"), 1, La, TRUE, M1, None, "none")

BadBlocks == {Block(Some("p.py"), 1, La, TRUE, M2, None, d) : d \in Defects}

AllBlocks == GoodBlocks \cup {BareBlock, LostFileBlock} \cup BadBlocks

\* the catalog files of the model: at most one block of a file has a defect
\* or names a file that cannot be opened
CatalogFiles ==
    {bs \in SeqsUpTo(AllBlocks, MaxBlocks) :
        Cardinality({i \in 1..Len(bs) : bs[i] \in BadBlocks \cup {LostFileBlock}}) <= 1}

\* The lines of a block.  The fenced text holds the marked line and one
\* line of context after it, which is not a line of any source file.
BlockLines(b) ==
    (IF b.hdr = None THEN <<>> ELSE <<FileHeaderLine(b.hdr[1]), EmptyLine>>)
    \o <<EntryHeaderLine(b.lineno, b.msg), EmptyLine>>
    \o (IF b.defect = "no message" THEN <<>>
        ELSE <<ListItemLine("message", b.msg.msg_text)>>)
    \o (IF b.defect = "no author" THEN <<>> ELSE <<ListItemLine("author", "alice")>>)
    \o (IF b.defect = "no date" THEN <<>> ELSE <<ListItemLine("date", OldDate)>>)
    \o <<IF b.ignored = None THEN EmptyLine ELSE ListItemLine("ignored", b.ignored[1]),
         EmptyLine>>
    \o (IF b.defect = "no fence" THEN <<>> ELSE <<FenceLine>>)
    \o (IF b.defect \in {"no fence", "no marked line"} THEN <<>>
        ELSE <<SrcLine(TRUE, b.lineno, b.pad, b.text)>>)
    \o (IF b.defect = "no fence" THEN <<>>
        ELSE <<SrcLine(FALSE, b.lineno + 1, TRUE, Lb)>>)
    \o (IF b.defect \in {"no fence", "unterminated fence"} THEN <<>> ELSE <<FenceLine>>)
    \o <<EmptyLine, EmptyLine>>

RECURSIVE CatalogLines(_)
CatalogLines(bs) ==
    IF bs = <<>> THEN <<>> ELSE BlockLines(Head(bs)) \o CatalogLines(Tail(bs))

LoadAlphabet == {La, LBlank}

LoadInit ==
    /\ pc = "start"
    /\ blocks \in CatalogFiles
    /\ catalog_file = CatalogLines(blocks)
    /\ \E lines \in SeqsUpTo(LoadAlphabet, MaxLoadLines) :
          fs = [path \in {"p.py"} |-> lines]
    /\ loaded = Idle
    /\ reloaded = Idle
    /\ FindIdle
    /\ old_ignore_catalog = Idle /\ new_ignore_catalog = Idle
    /\ default_author = Idle /\ default_date = Idle /\ enabled = Idle
    /\ n_findings = Idle /\ cat_writes = Idle
    /\ ExtraIdle

\* load(catalog_path) on the catalog file as first written
Load ==
    /\ pc = "start"
    /\ LET it == _iter_entry_values(catalog_file)
       IN  \E ties \in [1..Len(it.yields) -> Ties] : loaded' = load(fs, it, ties)
    /\ pc' = "loaded"
    /\ UNCHANGED <<blocks, catalog_file, reloaded>>
    /\ UNCHANGED <<fs, old_ignore_catalog, new_ignore_catalog, default_author,
                   default_date, enabled, n_findings, cat_writes>>
    /\ UNCHANGED findVars
    /\ UNCHANGED extraVars

\* dump(catalog, catalog_path) of the catalog that load returned
Dump ==
    /\ pc = "loaded"
    /\ loaded.raised = "none"
    /\ catalog_file' = dumps(loaded.catalog)
    /\ pc' = "dumped"
    /\ UNCHANGED <<blocks, loaded, reloaded>>
    /\ UNCHANGED <<fs, old_ignore_catalog, new_ignore_catalog, default_author,
                   default_date, enabled, n_findings, cat_writes>>
    /\ UNCHANGED findVars
    /\ UNCHANGED extraVars

\* load(catalog_path) on the dumped catalog file, the source files unchanged
Reload ==
    /\ pc = "dumped"
    /\ LET it == _iter_entry_values(catalog_file)
       IN  \E ties \in [1..Len(it.yields) -> Ties] : reloaded' = load(fs, it, ties)
    /\ pc' = "reloaded"
    /\ UNCHANGED <<blocks, catalog_file, loaded>>
    /\ UNCHANGED <<fs, old_ignore_catalog, new_ignore_catalog, default_author,
                   default_date, enabled, n_findings, cat_writes>>
    /\ UNCHANGED findVars
    /\ UNCHANGED extraVars

LoadNext == Load \/ Dump \/ Reload

SpecLoad == LoadInit /\ [][LoadNext]_vars

(***************************************************************************)
(* Properties of load and dump.  They are stated on the catalog file as    *)
(* it was written (blocks) and on the source files, not on the operators   *)
(* of the loader.                                                          *)
(***************************************************************************)
\* text occurs, trailing white space ignored, on a line of lines that is at
\* most d lines away from line n
Occurs(lines, text, n, d) ==
    \E j \in 1..Len(lines) : Abs(j - n) <= d /\ RStrip(lines[j]) = RStrip(text)

\* the lines of the source file around line n
LiveWindow(lines, n) ==
    SubSeq(lines, IF n - CONTEXT_LINES < 1 THEN 1 ELSE n - CONTEXT_LINES,
                  IF n + CONTEXT_LINES > Len(lines) THEN Len(lines) ELSE n + CONTEXT_LINES)

\* the text after the colon of the marked line of a fenced block
MarkedText(ctx_src_text) ==
    LET m == CHOOSE p \in 1..Len(ctx_src_text) :
                 ctx_src_text[p].k = "src" /\ ctx_src_text[p].v.mark
    IN  ctx_src_text[m].v.text

\* the outcomes of load that the run has produced so far
LoadRuns ==
    (IF pc \in {"loaded", "dumped", "reloaded"} THEN {loaded} ELSE {})
    \cup (IF pc = "reloaded" THEN {reloaded} ELSE {})

HeaderOf(j) ==
    LET hs == {i \in 1..j : blocks[i].hdr # None}
    IN  IF hs = {} THEN None ELSE blocks[Max(hs)].hdr

\* the number of the line of the catalog file that holds its entry header
HeaderLineNo(j) ==
    Len(CatalogLines(SubSeq(blocks, 1, j - 1)))
    + (IF blocks[j].hdr = None THEN 1 ELSE 3)

NoDefect(j) == blocks[j].defect = "none"
UnderHeader(j) == HeaderOf(j) # None
Readable(j) == UnderHeader(j) /\ CanOpen(fs, HeaderOf(j)[1])

\* the j-th block is complete, its file can be opened and holds the text of
\* the marked line within the search range of the recorded line
Relocatable(j) ==
    /\ NoDefect(j)
    /\ Readable(j)
    /\ Occurs(fs[HeaderOf(j)[1]], blocks[j].text, blocks[j].lineno, SearchRange - 1)

\* ... and holds that text nowhere near the recorded line
Unrelocatable(j) ==
    /\ NoDefect(j)
    /\ Readable(j)
    /\ ~Occurs(fs[HeaderOf(j)[1]], blocks[j].text, blocks[j].lineno, SearchRange)

\* the catalog that load returned holds the entry of the j-th block
InCatalog(j) ==
    \E i \in 1..Len(loaded.catalog) :
        LET e  == loaded.catalog[i].entry
            st == e.srctxt[1]
        IN  /\ UnderHeader(j)
            /\ e.path = HeaderOf(j)[1]
            /\ e.msg_id = blocks[j].msg.msg_id
            /\ e.author = "alice"
            /\ e.ignored = blocks[j].ignored
            /\ st.old_lineno = blocks[j].lineno
            /\ RStrip(fs[e.path][st.new_lineno]) = RStrip(blocks[j].text)

Logged(j) == \E i \in 1..Len(loaded.logged) : loaded.logged[i] = HeaderLineNo(j)

BlockIds == 1..Len(blocks)

\* C5: when load has run on a catalog file of complete blocks of which one
\* records a line whose text is nowhere within the search range in the
\* current file, load has returned, the catalog is without the entry of that
\* block, no error was logged for it, and the entry of every relocatable
\* block is in the catalog.
C5_ObsoleteEntryDroppedSilently ==
    (/\ pc = "loaded"
     /\ \A j \in BlockIds : NoDefect(j) /\ Readable(j)
     /\ \E j \in BlockIds : Unrelocatable(j))
    => /\ loaded.raised = "none"
       /\ \A j \in BlockIds : Unrelocatable(j) => ~InCatalog(j) /\ ~Logged(j)
       /\ \A j \in BlockIds : Relocatable(j) => InCatalog(j)

\* C6: when the catalog that load returned has been dumped and loaded again,
\* the source files being unchanged, the second load returns the same Keys,
\* each with an Entry equal in all fields but the line numbers.
SameButLinenos(e1, e2) ==
    /\ e1.msg_id = e2.msg_id /\ e1.path = e2.path /\ e1.symbol = e2.symbol
    /\ e1.msg_text = e2.msg_text /\ e1.author = e2.author /\ e1.date = e2.date
    /\ e1.ignored = e2.ignored
    /\ e1.srctxt[1].text = e2.srctxt[1].text

C6_DumpLoadRoundTrip ==
    pc = "reloaded"
    => /\ reloaded.raised = "none"
       /\ \A i \in 1..Len(loaded.catalog) :
            \E j \in 1..Len(reloaded.catalog) :
                /\ reloaded.catalog[j].key = loaded.catalog[i].key
                /\ SameButLinenos(reloaded.catalog[j].entry, loaded.catalog[i].entry)
       /\ \A j \in 1..Len(reloaded.catalog) :
            \E i \in 1..Len(loaded.catalog) :
                reloaded.catalog[j].key = loaded.catalog[i].key

\* C8: when load has run on a catalog file of complete blocks, each under a
\* file header, of which one names a file that cannot be opened, load has
\* returned, an error was logged for that block, and the entry of every
\* relocatable block of a readable file is in the catalog.
C8_UnreadableFileEntryDropped ==
    (/\ pc = "loaded"
     /\ \A j \in BlockIds : NoDefect(j) /\ UnderHeader(j)
     /\ \E j \in BlockIds : ~Readable(j))
    => /\ loaded.raised = "none"
       /\ \A j \in BlockIds : ~Readable(j) => Logged(j) /\ ~InCatalog(j)
       /\ \A j \in BlockIds : Relocatable(j) /\ blocks[j].pad => InCatalog(j)

\* C9: when load has run on a catalog file, all source files of which can be
\* opened, that holds a malformed block, load has returned and the entry of
\* every complete and relocatable block is in the catalog.
Malformed(j) == ~NoDefect(j) \/ ~UnderHeader(j)

C9_MalformedBlockSkipped ==
    (/\ pc = "loaded"
     /\ \A j \in BlockIds : UnderHeader(j) => Readable(j)
     /\ \E j \in BlockIds : Malformed(j))
    => /\ loaded.raised = "none"
       /\ \A j \in BlockIds : Relocatable(j) /\ blocks[j].pad => InCatalog(j)

(***************************************************************************)
(* The merge callback, called for the same findings twice in one run of    *)
(* main: pylint asks is_message_enabled more than once for a message.      *)
(***************************************************************************)
\* mutant: the default date is taken at the time of the call (now counts
\* the calls before it), not once before the first call
default_date_at_call(captured, now) ==
    IF now = 0 THEN captured ELSE "2020-07-18T09:00:01"

\* default_date is assigned once in main, before the callback is installed;
\* the callback reads the captured value whenever it is called
default_date_of_run(captured, now) == captured

\* a catalog file without entries, or with one entry
RepeatOldRecords(files) ==
    {<<>>} \cup {<<r>> : r \in {x \in OldRecords(files) : WellPlaced(files, <<x>>)}}

\* the findings of a pass: W0511 and C0303 on the lines of p.py and on p.py
\* as a whole (line 0)
RepeatFindings(files) ==
    {[msg |-> m, path |-> "p.py", line |-> n] : m \in Msgs, n \in 0..Len(files["p.py"])}

RepeatInit ==
    /\ pc = "pass1"
    /\ fs \in {f \in [MergePaths -> SeqsUpTo(MergeAlphabet, MaxRepeatLines)] :
                 /\ f["q.py"] = <<La>>
                 /\ f["p.py"] # <<>>}
    /\ \E recs \in RepeatOldRecords(fs) : old_ignore_catalog = MainLoadCatalog(fs, recs)
    /\ new_ignore_catalog = EmptyCatalog
    /\ default_author = "bob"
    /\ default_date = "2020-07-18T09:00:00"
    /\ \E fds \in SeqsUpTo(RepeatFindings(fs), MaxPassFindings) :
          fds # <<>> /\ findings = fds
    /\ decisions = <<>>
    /\ first_pass = EmptyCatalog
    /\ n_findings = 0
    /\ enabled = Idle /\ cat_writes = Idle
    /\ RepeatOthersIdle

\* the i-th finding of the pass goes through the callback
CallbackOn(i) ==
    LET f       == findings[i]
        ctx_src == IF f.line = 0 THEN None
                   ELSE Some(read_context_source_text(fs[f.path], f.line))
    IN  is_enabled_entry(old_ignore_catalog, f.msg, f.path, ctx_src, default_author,
                         default_date_of_run(default_date, n_findings))

Pass1Call ==
    /\ pc = "pass1"
    /\ LET r == CallbackOn(n_findings + 1)
       IN  /\ new_ignore_catalog' = Put(new_ignore_catalog, r.key, r.entry)
           /\ decisions' = Append(decisions, r.enabled)
           /\ IF n_findings + 1 = Len(findings)
              THEN /\ pc' = "pass2"
                   /\ first_pass' = Put(new_ignore_catalog, r.key, r.entry)
              ELSE UNCHANGED <<pc, first_pass>>
    /\ n_findings' = n_findings + 1
    /\ UNCHANGED <<fs, old_ignore_catalog, default_author, default_date, enabled,
                   cat_writes, findings>>
    /\ UNCHANGED repeatOthers

Pass2Call ==
    /\ pc = "pass2"
    /\ LET r == CallbackOn(n_findings - Len(findings) + 1)
       IN  /\ new_ignore_catalog' = Put(new_ignore_catalog, r.key, r.entry)
           /\ decisions' = Append(decisions, r.enabled)
    /\ pc' = IF n_findings + 1 = 2 * Len(findings) THEN "done" ELSE "pass2"
    /\ n_findings' = n_findings + 1
    /\ UNCHANGED <<fs, old_ignore_catalog, default_author, default_date, enabled,
                   cat_writes, findings, first_pass>>
    /\ UNCHANGED repeatOthers

RepeatNext == Pass1Call \/ Pass2Call

SpecRepeat == RepeatInit /\ [][RepeatNext]_vars

\* C12: when the findings of a pass have gone through the callback a second
\* time, every finding got the decision it got in the first pass and the
\* new catalog is the catalog the first pass left.
C12_MergeIdempotent ==
    pc = "done"
    => /\ \A i \in 1..Len(findings) : decisions[Len(findings) + i] = decisions[i]
       /\ new_ignore_catalog = first_pass

\* two passes are done over two different findings of one Key, which the
\* old catalog holds, and over a finding that was surfaced
C12_Witness ==
    /\ pc = "done"
    /\ Len(findings) = 2
    /\ findings[1] # findings[2]
    /\ Cardinality(DOMAIN new_ignore_catalog) = 1
    /\ DOMAIN new_ignore_catalog \subseteq DOMAIN old_ignore_catalog
    /\ \E i \in 1..Len(decisions) : decisions[i]

(***************************************************************************)
(* Relocation before and after lines are inserted into the file: two calls *)
(* of find_source_text_lineno with the same recorded text and line number. *)
(***************************************************************************)
ShiftAlphabet == {La, Lb}
ShiftTexts    == {La, LaWs}
\* the lines that are inserted: their text is not the recorded text
InsertAlphabet == {Lb, LBlank}

\* lines with ins inserted behind its first at lines
InsertLines(lines, at, ins) ==
    SubSeq(lines, 1, at) \o ins \o SubSeq(lines, at + 1, Len(lines))

ShiftInit ==
    /\ pc = "start"
    /\ src_lines \in SeqsUpTo(ShiftAlphabet, MaxShiftLines)
    /\ old_source_line \in ShiftTexts
    /\ old_lineno \in 0..(MaxShiftLines + MaxInserted + 1)
    /\ ret = [kind |-> "none", lineno |-> 0, tie |-> "lo"]
    /\ edited_lines = <<>>
    /\ insert_at = 0
    /\ ret_edited = [kind |-> "none", lineno |-> 0]
    /\ ShiftOthersIdle

\* the call on the file as it was
FindOriginal ==
    /\ pc = "start"
    /\ \E tie \in Ties :
         LET k == find_source_text_lineno(src_lines, old_source_line, old_lineno, tie)
         IN  ret' = IF k = 0 THEN [kind |-> "ObsoleteEntry", lineno |-> 0, tie |-> tie]
                    ELSE [kind |-> "return", lineno |-> k, tie |-> tie]
    /\ pc' = "found"
    /\ UNCHANGED <<src_lines, old_source_line, old_lineno>>
    /\ UNCHANGED shiftVars
    /\ UNCHANGED shiftOthers

\* the file is edited: lines are inserted somewhere
EditFile ==
    /\ pc = "found"
    /\ ret.kind = "return"
    /\ \E at \in 0..Len(src_lines), ins \in SeqsUpTo(InsertAlphabet, MaxInserted) :
         /\ ins # <<>>
         /\ edited_lines' = InsertLines(src_lines, at, ins)
         /\ insert_at' = at
    /\ pc' = "edited"
    /\ UNCHANGED <<findVars, ret_edited>>
    /\ UNCHANGED shiftOthers

\* The call on the edited file.  The order in which the two indexes of an
\* offset are visited is a function of the two indexes: when the first
\* matching offset is the one of the first call, so is the order.
FindEdited ==
    /\ pc = "edited"
    /\ \E tie \in Ties :
         LET k    == find_source_text_lineno(edited_lines, old_source_line, old_lineno, tie)
             offs == MatchingOffsets(edited_lines, old_source_line, old_lineno)
         IN  /\ (offs # {} /\ Min(offs) = Abs(ret.lineno - old_lineno)) => tie = ret.tie
             /\ ret_edited' = IF k = 0 THEN [kind |-> "ObsoleteEntry", lineno |-> 0]
                              ELSE [kind |-> "return", lineno |-> k]
    /\ pc' = "done"
    /\ UNCHANGED <<findVars, edited_lines, insert_at>>
    /\ UNCHANGED shiftOthers

ShiftNext == FindOriginal \/ EditFile \/ FindEdited

SpecShift == ShiftInit /\ [][ShiftNext]_vars

\* the number of inserted lines, and the line the anchor has moved to
NumInserted == Len(edited_lines) - Len(src_lines)
ShiftedLine == IF insert_at < ret.lineno THEN ret.lineno + NumInserted ELSE ret.lineno

OnlyShiftedLineMatches ==
    /\ Abs(ShiftedLine - old_lineno) < SearchRange
    /\ \A j \in 1..Len(edited_lines) :
          (j # ShiftedLine /\ Abs(j - old_lineno) < SearchRange)
              => RStrip(edited_lines[j]) # RStrip(old_source_line)

DumpFiles == [path \in {"p.py", "q.py"} |->
                 IF path = "p.py" THEN <<La, Lb, La, Lb>> ELSE <<La, Lb>>]

\* the item (Key and Entry) of msg at line lineno of path, 0 for no line
DumpItem(msg, path, lineno) ==
    LET srctxt == IF lineno = 0 THEN None
                  ELSE Some(read_source_text(DumpFiles[path], lineno, lineno))
        entry  == Entry(msg.msg_id, path, msg.symbol, msg.msg_text, "alice", OldDate,
                        None, srctxt)
    IN  [key   |-> Key(entry, IF lineno = 0 THEN <<>> ELSE srctxt[1].text),
         entry |-> entry]

DumpItems ==
    {DumpItem(m, "p.py", n) : m \in Msgs, n \in 0..Len(DumpFiles["p.py"])}
    \cup {DumpItem(m, "q.py", 1) : m \in Msgs}

\* the catalogs: sequences of items of different Keys
DumpCatalogs ==
    {c \in SeqsUpTo(DumpItems, MaxDumpEntries) :
        \A i, j \in 1..Len(c) : i # j => c[i].key # c[j].key}

\* the same items in the order given by the permutation perm
Reordered(c, perm) == [i \in 1..Len(c) |-> c[perm[i]]]
PermutationsOf(n) == {f \in [1..n -> 1..n] : \A i, j \in 1..n : i # j => f[i] # f[j]}

DumpsInit ==
    /\ pc = "start"
    /\ dump_catalog \in DumpCatalogs
    /\ catalog_text = <<>>
    /\ reordered_text = <<>>
    /\ DumpsOthersIdle

\* dumps(catalog)
Dumps ==
    /\ pc = "start"
    /\ IF DumpsRaises(dump_catalog)
       THEN pc' = "TypeError" /\ UNCHANGED catalog_text
       ELSE pc' = "dumped" /\ catalog_text' = dumps(dump_catalog)
    /\ UNCHANGED <<dump_catalog, reordered_text>>
    /\ UNCHANGED dumpsOthers

\* dumps of a catalog that got the same items in another order
DumpsReordered ==
    /\ pc = "dumped"
    /\ \E perm \in PermutationsOf(Len(dump_catalog)) :
          reordered_text' = dumps(Reordered(dump_catalog, perm))
    /\ pc' = "both"
    /\ UNCHANGED <<dump_catalog, catalog_text>>
    /\ UNCHANGED dumpsOthers

DumpsNext == Dumps \/ DumpsReordered

SpecDumps == DumpsInit /\ [][DumpsNext]_vars

\* the places of the file headers and of the entry headers in a catalog text
FileHeaderPos(text) == {i \in 1..Len(text) : text[i].k = "file"}
EntryHeaderPos(text) == {i \in 1..Len(text) : text[i].k = "entry"}

\* the path of the file header an entry header at place i stands under
PathAbove(text, i) ==
    LET hs == {h \in FileHeaderPos(text) : h < i}
    IN  IF hs = {} THEN None ELSE Some(text[Max(hs)].v)

\* the entry header dumps writes for an entry
HeaderLineOf(entry) ==
    EntryHeaderLine(IF entry.srctxt = None THEN 0 - 1 ELSE entry.srctxt[1].new_lineno,
                    entry)

DumpPaths == {dump_catalog[i].entry.path : i \in 1..Len(dump_catalog)}

\* C14: in the text dumps returns every path of the catalog has exactly one
\* file header, the file headers stand in ascending order of their paths,
\* every entry of the catalog has its entry header exactly once, under the
\* header of its own path, and the entry headers under one file header stand
\* in ascending order of their line numbers.
C14_DumpsGroupsAndSorts ==
    pc \in {"dumped", "both"} =>
        /\ \A path \in DumpPaths :
              Cardinality({h \in FileHeaderPos(catalog_text) :
                              catalog_text[h].v = path}) = 1
        /\ \A h \in FileHeaderPos(catalog_text) : catalog_text[h].v \in DumpPaths
        /\ \A h1, h2 \in FileHeaderPos(catalog_text) :
              h1 < h2 => PathOrd(catalog_text[h1].v) < PathOrd(catalog_text[h2].v)
        /\ Cardinality(EntryHeaderPos(catalog_text)) = Len(dump_catalog)
        /\ \A k \in 1..Len(dump_catalog) :
              \E i \in EntryHeaderPos(catalog_text) :
                  /\ catalog_text[i] = HeaderLineOf(dump_catalog[k].entry)
                  /\ PathAbove(catalog_text, i) = Some(dump_catalog[k].entry.path)
        /\ \A i, j \in EntryHeaderPos(catalog_text) :
              (i < j /\ PathAbove(catalog_text, i) = PathAbove(catalog_text, j))
                  => catalog_text[i].v.lineno <= catalog_text[j].v.lineno

\* a text was produced for a catalog of two files whose entries were
\* inserted with the later path first and, within one file, with the later
\* line first
C14_Witness ==
    /\ pc = "dumped"
    /\ \E i, j \in 1..Len(dump_catalog) :
          /\ i < j
          /\ PathOrd(dump_catalog[i].entry.path) > PathOrd(dump_catalog[j].entry.path)
    /\ \E i, j \in 1..Len(dump_catalog) :
          /\ i < j
          /\ dump_catalog[i].entry.path = dump_catalog[j].entry.path
          /\ dump_catalog[i].entry.srctxt # None
          /\ dump_catalog[j].entry.srctxt # None
          /\ dump_catalog[i].entry.srctxt[1].new_lineno
                > dump_catalog[j].entry.srctxt[1].new_lineno

\* C15: two catalogs of the same items, filled in different orders,
\* serialize to the same text.
C15_InsertionOrderIndependent ==
    pc = "both" => reordered_text = catalog_text

(***************************************************************************)
(* catalog.py: dump.  The steps of dump are taken one at a time, and every *)
(* step that touches the disk can fail.  The text reaches a file in parts. *)
(***************************************************************************)
DEFAULT_CATALOG_PATH == "pylint-ignore.md"

\* mutant: the text is written in place
tmp_path_in_place(catalog_path) == catalog_path

\* catalog_path.parent / (catalog_path.name + ".tmp")
tmp_path(catalog_path) == catalog_path \o ".tmp"

DiskPaths == {DEFAULT_CATALOG_PATH, DEFAULT_CATALOG_PATH \o ".tmp"}

DumpFileCatalogs == {c \in DumpCatalogs : Len(c) <= MaxDumpFileEntries}

\* what the catalog file holds before the call: nothing, or the text of an
\* earlier dump
OldTargets ==
    {None, Some(dumps(<<>>)), Some(dumps(<<DumpItem(M1, "p.py", 1)>>))}

\* a .tmp file a failed earlier call left behind
OldTmps == {None, Some(CATALOG_HEADER)}

DumpFileInit ==
    /\ pc = "dump"
    /\ dump_arg \in DumpFileCatalogs
    /\ \E target \in OldTargets, tmp \in OldTmps :
          /\ old_target = target
          /\ disk = [path \in DiskPaths |->
                        IF path = DEFAULT_CATALOG_PATH THEN target ELSE tmp]
    /\ dump_text = <<>>
    /\ AtomicOthersIdle

\* catalog_text = dumps(catalog)
DumpSerialize ==
    /\ pc = "dump"
    /\ IF DumpsRaises(dump_arg)
       THEN pc' = "TypeError" /\ UNCHANGED dump_text
       ELSE pc' = "open" /\ dump_text' = dumps(dump_arg)
    /\ UNCHANGED <<disk, old_target, dump_arg>>
    /\ UNCHANGED atomicOthers

\* tmp_path.open(mode="w"): the file is created or truncated, or the call
\* raises OSError
DumpOpen ==
    /\ pc = "open"
    /\ \/ /\ disk' = [disk EXCEPT ![tmp_path(DEFAULT_CATALOG_PATH)] = Some(<<>>)]
          /\ pc' = "write"
       \/ /\ pc' = "OSError"
          /\ UNCHANGED disk
    /\ UNCHANGED <<old_target, dump_arg, dump_text>>
    /\ UNCHANGED atomicOthers

\* fobj.write(catalog_text) and the close at the end of the with block: the
\* text reaches the file at once or a part of it first and the rest at the
\* close, and OSError can be raised before and after a part
DumpWrite ==
    /\ pc \in {"write", "rest"}
    /\ LET path == tmp_path(DEFAULT_CATALOG_PATH)
       IN  \/ /\ pc = "write"
              /\ \E n \in 1..(Len(dump_text) - 1) :
                    disk' = [disk EXCEPT ![path] = Some(SubSeq(dump_text, 1, n))]
              /\ pc' \in {"rest", "OSError"}
           \/ /\ disk' = [disk EXCEPT ![path] = Some(dump_text)]
              /\ pc' = "move"
           \/ /\ pc' = "OSError"
              /\ UNCHANGED disk
    /\ UNCHANGED <<old_target, dump_arg, dump_text>>
    /\ UNCHANGED atomicOthers

\* shutil.move(tmp_path, catalog_path): both paths lie in one directory, the
\* move is a rename, which replaces the target in one step or fails
DumpMove ==
    /\ pc = "move"
    /\ LET src == tmp_path(DEFAULT_CATALOG_PATH)
           dst == DEFAULT_CATALOG_PATH
       IN  \/ /\ disk' = [path \in DiskPaths |->
                            IF path = dst THEN disk[src]
                            ELSE IF path = src THEN None ELSE disk[path]]
              /\ pc' = "done"
           \/ /\ pc' = "OSError"
              /\ UNCHANGED disk
    /\ UNCHANGED <<old_target, dump_arg, dump_text>>
    /\ UNCHANGED atomicOthers

DumpFileNext == DumpSerialize \/ DumpOpen \/ DumpWrite \/ DumpMove

SpecDumpFile == DumpFileInit /\ [][DumpFileNext]_vars

LDef   == Line(0, "def f", 0)
LClass == Line(1, "class C", 0)
LaIn2  == Line(2, "a", 0)

ReadAlphabet == {LDef, LClass, LaIn2, LBlank}

ReadInit ==
    /\ pc = "call"
    /\ read_lines \in SeqsUpTo(ReadAlphabet, MaxReadLines)
    /\ read_new_lineno \in 1..Len(read_lines)
    /\ read_old_lineno \in {read_new_lineno, 1}
    /\ read_ret = <<>>
    /\ read_entry_text = <<>>
    /\ ReadOthersIdle

ReadSourceText ==
    /\ pc = "call"
    /\ read_ret' = read_source_text(read_lines, read_new_lineno, read_old_lineno)
    /\ pc' = "returned"
    /\ UNCHANGED <<read_lines, read_new_lineno, read_old_lineno, read_entry_text>>
    /\ UNCHANGED readOthers

\* _dumps_entry of an entry whose srctxt is the SourceText returned
DumpsEntry ==
    /\ pc = "returned"
    /\ read_entry_text' = _dumps_entry(Entry(M1.msg_id, "p.py", M1.symbol, M1.msg_text,
                                             "alice", OldDate, None, Some(read_ret)))
    /\ pc' = "written"
    /\ UNCHANGED <<read_lines, read_new_lineno, read_old_lineno, read_ret>>
    /\ UNCHANGED readOthers

ReadNext == ReadSourceText \/ DumpsEntry

SpecRead == ReadInit /\ [][ReadNext]_vars

\* C17: for a target line n of a file of L lines the window starts at
\* max(0, n - 1 - 2) and ends at min(L, n + 2), the text is the lines of the
\* window, the window holds the target line and at most 5 lines, and the two
\* line numbers are returned as they were passed.
C17_WindowAroundTarget ==
    pc = "returned" =>
        LET n == read_new_lineno
            L == Len(read_lines)
        IN  /\ read_ret.start_idx = Max({0, n - 1 - 2})
            /\ read_ret.end_idx = Min({L, n + 2})
            /\ read_ret.text = [i \in 1..(read_ret.end_idx - read_ret.start_idx) |->
                                   read_lines[read_ret.start_idx + i]]
            /\ read_ret.start_idx < n /\ n <= read_ret.end_idx
            /\ Len(read_ret.text) <= 5
            /\ read_ret.new_lineno = read_new_lineno
            /\ read_ret.old_lineno = read_old_lineno

\* a window of five lines in the middle of a file, returned with an old line
\* number that differs from the new one
C17_Witness ==
    /\ pc = "returned"
    /\ read_ret.start_idx > 0
    /\ read_ret.end_idx < Len(read_lines)
    /\ Len(read_ret.text) = 5
    /\ read_old_lineno # read_new_lineno

\* the indexes of the lines above the target line that are not blank, less
\* indented than the target line and start with def or class
HeadersAbove ==
    {i \in 0..(read_new_lineno - 2) :
        /\ read_lines[i + 1].tok # ""
        /\ read_lines[i + 1].ind < IndentLvl(read_lines[read_new_lineno])
        /\ read_lines[i + 1].tok \in DeclTokens}

\* C18: a header is recorded exactly when the nearest header above the
\* target line lies before the start of the window, wherever in the file it
\* stands, and it is that line; otherwise def_line_idx and def_line are None.
C18_HeaderRecordedIffBeforeWindow ==
    pc = "returned" =>
        IF HeadersAbove # {} /\ Max(HeadersAbove) < read_ret.start_idx
        THEN /\ read_ret.def_line_idx = Some(Max(HeadersAbove))
             /\ read_ret.def_line = Some(read_lines[Max(HeadersAbove) + 1])
        ELSE /\ read_ret.def_line_idx = None
             /\ read_ret.def_line = None

(***************************************************************************)
(* catalog.py: read_source_lines and _SRC_CACHE.  A list object is known   *)
(* by the number of the open that made it; the dict keeps its items in the *)
(* order of insertion and popitem takes the last of them.                  *)
(***************************************************************************)
CachePaths == {"p.py", "q.py", "r.py", "s.py", "gone.py"}

CachedPaths(cache) == {cache[i].path : i \in 1..Len(cache)}
CacheItem(cache, path) ==
    cache[CHOOSE i \in 1..Len(cache) : cache[i].path = path]

\* _SRC_CACHE.popitem()
PopItem(cache) == SubSeq(cache, 1, Len(cache) - 1)

\* mutant: every call opens and reads the file
read_source_lines_uncached(cache, files, path, new_obj) ==
    LET others == SelectSeq(cache, LAMBDA it : it.path # path)
        room   == IF Len(others) > 2 THEN PopItem(others) ELSE others
    IN  IF files[path] = None
        THEN [cache |-> room, ok |-> FALSE, opened |-> TRUE, obj |-> 0, lines |-> <<>>]
        ELSE [cache  |-> Append(room, [path |-> path, obj |-> new_obj,
                                       lines |-> files[path][1]]),
              ok |-> TRUE, opened |-> TRUE, obj |-> new_obj, lines |-> files[path][1]]

\* read_source_lines(path): the cache after the call, whether it returned
\* (ok) or raised, whether it opened the file, and the list object returned
\* with its lines.  new_obj is the identity of a list made by this call.
read_source_lines(cache, files, path, new_obj) ==
    IF path \in CachedPaths(cache)
    THEN [cache |-> cache, ok |-> TRUE, opened |-> FALSE,
          obj |-> CacheItem(cache, path).obj, lines |-> CacheItem(cache, path).lines]
    ELSE LET room == IF Len(cache) > 2 THEN PopItem(cache) ELSE cache
         IN  IF files[path] = None
             THEN [cache |-> room, ok |-> FALSE, opened |-> TRUE, obj |-> 0,
                   lines |-> <<>>]
             ELSE [cache  |-> Append(room, [path |-> path, obj |-> new_obj,
                                            lines |-> files[path][1]]),
                   ok |-> TRUE, opened |-> TRUE, obj |-> new_obj,
                   lines |-> files[path][1]]

CacheInit ==
    /\ pc = "run"
    /\ src_cache = <<>>
    /\ src_disk = [path \in CachePaths |->
                      IF path = "gone.py" THEN None ELSE Some(<<La>>)]
    /\ cache_log = <<>>
    /\ n_edits = 0
    /\ CacheOthersIdle

\* a call of read_source_lines
ReadSourceLines ==
    /\ pc = "run"
    /\ Len(cache_log) < MaxCacheCalls
    /\ \E path \in CachePaths :
          LET r == read_source_lines(src_cache, src_disk, path, Len(cache_log) + 1)
          IN  /\ src_cache' = r.cache
              /\ cache_log' = Append(cache_log,
                                [path |-> path, hit |-> path \in CachedPaths(src_cache),
                                 ok |-> r.ok, opened |-> r.opened, obj |-> r.obj,
                                 lines |-> r.lines])
    /\ UNCHANGED <<src_disk, n_edits, pc>>
    /\ UNCHANGED cacheOthers

\* a source file is edited between two calls
EditSource ==
    /\ pc = "run"
    /\ n_edits < MaxEdits
    /\ \E path \in CachePaths :
          /\ src_disk[path] # None
          /\ src_disk' = [src_disk EXCEPT ![path] = Some(Append(src_disk[path][1], Lb))]
    /\ n_edits' = n_edits + 1
    /\ UNCHANGED <<src_cache, cache_log, pc>>
    /\ UNCHANGED cacheOthers

CacheNext == ReadSourceLines \/ EditSource

SpecCache == CacheInit /\ [][CacheNext]_vars

\* the latest call before the k-th that returned lines of the same path
EarlierCall(k) ==
    Max({j \in 1..(k - 1) : cache_log[j].path = cache_log[k].path /\ cache_log[j].ok})

\* C19: a call for a path that is in the cache returns the list object the
\* earlier call for that path returned, with the lines read then, and does
\* not open the file.
C19_CachedCallReturnsSameObject ==
    \A k \in 1..Len(cache_log) :
        cache_log[k].hit =>
            /\ cache_log[k].ok
            /\ ~cache_log[k].opened
            /\ cache_log[k].obj = cache_log[EarlierCall(k)].obj
            /\ cache_log[k].lines = cache_log[EarlierCall(k)].lines

\* the last call was for a cached path whose file was edited after it was
\* read
C19_Witness ==
    /\ cache_log # <<>>
    /\ LET last == cache_log[Len(cache_log)]
       IN  /\ last.hit
           /\ src_disk[last.path] # Some(last.lines)

\* C20: after any calls the cache holds at most 3 paths, and the path of the
\* latest call that returned is one of them.
C20_CacheBoundedAndHoldsLatest ==
    /\ Len(src_cache) <= 3
    /\ LET oks == {k \in 1..Len(cache_log) : cache_log[k].ok}
       IN  oks # {} => cache_log[Max(oks)].path \in CachedPaths(src_cache)

(***************************************************************************)
(* The reach of the search of find_source_text_lineno.                     *)
(***************************************************************************)
\* the distances from the recorded line number of the lines that hold the
\* recorded text, trailing whitespace aside
MatchDistances ==
    {Abs(j - old_lineno) : j \in {i \in 1..Len(src_lines) :
                                     RStrip(src_lines[i]) = RStrip(old_source_line)}}

\* C21 as stated: the call returns a line number exactly when a matching
\* line lies at a distance of at most 100 from the recorded line number, and
\* raises ObsoleteEntry otherwise.
C21_FoundIffWithinBound ==
    pc = "done" =>
        /\ ret.kind = "return" <=> (\E d \in MatchDistances : d <= SearchRange)
        /\ ret.kind = "ObsoleteEntry" <=> ~(\E d \in MatchDistances : d <= SearchRange)

\* C21, amended: the call returns a line number exactly when a matching line
\* lies at a distance of less than 100 (offsets 0 to 99) from the recorded
\* line number, and raises ObsoleteEntry otherwise.
C21_FoundIffBelowBound ==
    pc = "done" =>
        /\ ret.kind = "return" <=> (\E d \in MatchDistances : d < SearchRange)
        /\ ret.kind = "ObsoleteEntry" <=> ~(\E d \in MatchDistances : d < SearchRange)

\* a call that found the text at the last offset tested
C21_Witness ==
    /\ pc = "done"
    /\ ret.kind = "return"
    /\ Abs(ret.lineno - old_lineno) = SearchRange - 1

(***************************************************************************)
(* What the new catalog holds in the course of a run.                      *)
(***************************************************************************)
\* the Key of the i-th finding of the pass
FindingKey(i) ==
    LET f == findings[i]
    IN  CatalogKey(f.msg, f.path,
                   IF f.line = 0 THEN <<>> ELSE ContextWindow(fs[f.path], f.line).text)

\* the Keys of the findings that went through the callback so far
PassedKeys ==
    {FindingKey(i) : i \in 1..Min({n_findings, Len(findings)})}

\* C22: the new catalog holds an entry for each Key that was passed to the
\* callback and for no other Key, so that entries of the old catalog whose
\* findings were not seen are not in it, and no call of the callback changes
\* the old catalog.
C22_NewCatalogIsObservedKeys ==
    /\ [](DOMAIN new_ignore_catalog = PassedKeys)
    /\ [][old_ignore_catalog' = old_ignore_catalog]_vars

\* a pass over two findings of different Keys is done, and the old catalog
\* holds an entry that no finding of the pass has the Key of
C22_Witness ==
    /\ pc = "pass2"
    /\ n_findings = Len(findings)
    /\ Cardinality(PassedKeys) = 2
    /\ DOMAIN old_ignore_catalog # {}
    /\ DOMAIN old_ignore_catalog \cap PassedKeys = {}

(***************************************************************************)
(* catalog.py: _iter_entry_values on catalog files of whole blocks and of  *)
(* blocks with defects, in any order.                                      *)
(***************************************************************************)
IterInit ==
    /\ pc = "start"
    /\ \E bs \in SeqsUpTo(AllBlocks, MaxIterBlocks) : iter_file = CatalogLines(bs)
    /\ iter_out = <<>>
    /\ IterOthersIdle

\* list(_iter_entry_values(catalog_path))
Iterate ==
    /\ pc = "start"
    /\ iter_out' = _iter_entry_values(iter_file)
    /\ pc' = "iterated"
    /\ UNCHANGED iter_file
    /\ UNCHANGED iterOthers

IterNext == Iterate

SpecIter == IterInit /\ [][IterNext]_vars

\* the numbers of the entry header lines of the file, in file order
RECURSIVE Ascending(_)
Ascending(S) ==
    IF S = {} THEN <<>> ELSE <<Min(S)>> \o Ascending(S \ {Min(S)})

EntryHeaderNos == Ascending({i \in 1..Len(iter_file) : iter_file[i].k = "entry"})

\* the numbers of the file headers before line i
FileHeadersBefore(i) == {h \in 1..(i - 1) : iter_file[h].k = "file"}

\* the lines of the block of the header on line i: those up to the next
\* header of either kind
BlockOf(i) ==
    LET later == {h \in (i + 1)..Len(iter_file) : iter_file[h].k \in {"file", "entry"}}
    IN  (i + 1)..(IF later = {} THEN Len(iter_file) ELSE Min(later) - 1)

\* C23: the generator yields one record for each entry header line, in file
\* order; the record has the line number, message id and symbol of its
\* header and the path of the nearest file header before it, and every
\* message, author, date, ignored and context value of the record stands in
\* the block of its own header.
C23_OneRecordPerEntryHeader ==
    pc = "iterated" =>
        /\ ~iter_out.raised
        /\ Len(iter_out.yields) = Len(EntryHeaderNos)
        /\ \A n \in 1..Len(iter_out.yields) :
              LET ev == iter_out.yields[n]
                  i  == EntryHeaderNos[n]
              IN  /\ ev["catalog_lineno"] = i
                  /\ ev["lineno"] = iter_file[i].v.lineno
                  /\ ev["msg_id"] = iter_file[i].v.msg_id
                  /\ ev["symbol"] = iter_file[i].v.symbol
                  /\ FileHeadersBefore(i) # {} =>
                        /\ "path" \in DOMAIN ev
                        /\ ev["path"] = iter_file[Max(FileHeadersBefore(i))].v
                  /\ \A key \in DOMAIN ev \cap {"message", "author", "date", "ignored"} :
                        \E j \in BlockOf(i) : iter_file[j] = ListItemLine(key, ev[key])
                  /\ "ctx_src_text" \in DOMAIN ev =>
                        \E j \in BlockOf(i) :
                            /\ iter_file[j].k = "fence"
                            /\ ev["ctx_src_text"][1] = iter_file[j]
                            /\ \A x \in 1..Len(ev["ctx_src_text"]) :
                                  j + x - 1 \in BlockOf(i)
                                  /\ ev["ctx_src_text"][x] = iter_file[j + x - 1]

(***************************************************************************)
(* The header line and the truncation line of a serialized entry.          *)
(***************************************************************************)
\* the places of the numbered lines written before the window: the header
\* line, if one is written
HeaderLinePos ==
    {i \in 1..Len(read_entry_text) :
        /\ read_entry_text[i].k = "src"
        /\ read_entry_text[i].v.lineno <= read_ret.start_idx}

HasDots == \E i \in 1..Len(read_entry_text) : read_entry_text[i].k = "dots"

\* C24: when the entry text has a header line, the truncation line is
\* written exactly when at least one source line lies between the header
\* line and the first line of the window.
C24_DotsIffHeaderNotAdjacent ==
    (pc = "written" /\ HeaderLinePos # {}) =>
        LET def_lineno   == read_entry_text[Min(HeaderLinePos)].v.lineno
            first_lineno == read_ret.start_idx + 1
        IN  HasDots <=> def_lineno + 1 < first_lineno

(***************************************************************************)
(* Entries without source text in dumps and in the loader's grammar.       *)
(***************************************************************************)
HasFileScopedEntry ==
    \E i \in 1..Len(dump_catalog) : dump_catalog[i].entry.srctxt = None

\* C25: for a catalog that holds an entry without source text, alone or
\* beside line-anchored entries of the same file, dumps returns a text,
\* every entry header of the text is one that ENTRY_HEADER_RE matches, and
\* the loader's records carry the message of their own entry.
C25_FileScopedEntryPersists ==
    (pc # "start" /\ HasFileScopedEntry) =>
        /\ pc # "TypeError"
        /\ \A i \in EntryHeaderPos(catalog_text) : IsEntryHeader(catalog_text[i])
        /\ LET it == _iter_entry_values(catalog_text)
           IN  \A n \in 1..Len(it.yields) :
                  "message" \in DOMAIN it.yields[n] =>
                      \E m \in Msgs : /\ m.msg_id = it.yields[n]["msg_id"]
                                      /\ m.msg_text = it.yields[n]["message"]

(***************************************************************************)
(* Entries whose target line is empty, through dump and load.              *)
(***************************************************************************)
\* the line the entry is anchored on holds no text
BlankTarget(entry) == IsBlank(fs[entry.path][entry.srctxt[1].new_lineno])

\* C26: an entry that load returned and whose target line is empty or blank
\* is returned again, on the same line, by load of the dumped catalog.
C26_BlankTargetRoundTrips ==
    pc = "reloaded" =>
        \A i \in 1..Len(loaded.catalog) :
            BlankTarget(loaded.catalog[i].entry) =>
                \E j \in 1..Len(reloaded.catalog) :
                    /\ reloaded.catalog[j].key = loaded.catalog[i].key
                    /\ reloaded.catalog[j].entry.srctxt[1].new_lineno
                          = loaded.catalog[i].entry.srctxt[1].new_lineno

(***************************************************************************)
(* The catalog file as characters.  A line of text is the sequence of its  *)
(* pieces: the fixed strings of ENTRY_TEMPLATE and of the f-strings of     *)
(* _dumps_entry, numbers in decimal, and the pieces of the source text.    *)
(* Written gives the pieces dumps writes for a line, Read what the regular *)
(* expressions of the loader make of the pieces of a line.                 *)
(***************************************************************************)
Digits == <<"0", "1", "2", "3", "4", "5", "6", "7", "8", "9">>

\* str(n) for -9 <= n <= 99
NumStr(n) ==
    IF n < 0 THEN "-" \o Digits[1 - n]
    ELSE IF n < 10 THEN Digits[n + 1]
    ELSE Digits[(n \div 10) + 1] \o Digits[(n % 10) + 1]

\* \d+ matches s, and int(s)
IsNumStr(s) == \E n \in 0..99 : NumStr(n) = s
StrNum(s) == CHOOSE n \in 0..99 : NumStr(n) = s

Spaces(n) == [i \in 1..n |-> " "]

\* source lines that read like a file header, an entry header, a list item
\* and a fence of the catalog file
LikeFileHeader  == Line(0, "## File: x", 0)
LikeEntryHeader == Line(0, "### Line 1 - W0001 (x)", 0)
LikeListItem    == Line(0, "- message: y", 0)
LikeFence       == Line(0, "fence", 0)

\* the pieces of the text of a source line
Chars(tok) ==
    IF tok = "" THEN <<>>
    ELSE IF tok = LikeFileHeader.tok THEN <<"## File: ", "x">>
    ELSE IF tok = LikeEntryHeader.tok
    THEN <<"### Line ", "1", " - ", "W0001", " (", "x", ")">>
    ELSE IF tok = LikeListItem.tok THEN <<"- ", "message", ": ", "y">>
    ELSE <<tok>>

SourceChars(line) == Spaces(line.ind) \o Chars(line.tok) \o Spaces(line.ws)

FencedAlphabet == {La, LikeFileHeader, LikeEntryHeader, LikeListItem, LikeFence, LBlank}

\* mutant: the lines of the context are written as they are in the source
Written_unnumbered(l) ==
    IF l.k = "file" THEN <<"## File: ", l.v>>
    ELSE IF l.k = "entry"
    THEN <<"### Line ", NumStr(l.v.lineno), " - ", l.v.msg_id, " (", l.v.symbol, ")">>
    ELSE IF l.k = "item" THEN <<"- ", l.v.key, ": ", l.v.value>>
    ELSE IF l.k = "fence" THEN <<"fence">>
    ELSE IF l.k = "src" THEN SourceChars(l.v.text)
    ELSE IF l.k = "dots" THEN <<"  ...">>
    ELSE IF l.k = "empty" THEN <<>>
    ELSE <<l.v>>

\* the pieces of a line of the text of dumps
Written(l) ==
    IF l.k = "file" THEN <<"## File: ", l.v>>
    ELSE IF l.k = "entry"
    THEN <<"### Line ", NumStr(l.v.lineno), " - ", l.v.msg_id, " (", l.v.symbol, ")">>
    ELSE IF l.k = "item" THEN <<"- ", l.v.key, ": ", l.v.value>>
    ELSE IF l.k = "fence" THEN <<"fence">>
    ELSE IF l.k = "src"
    THEN <<IF l.v.mark THEN "> " ELSE "  ", NumStr(l.v.lineno), ":">>
         \o (IF l.v.pad THEN <<" ">> \o SourceChars(l.v.text) ELSE <<>>)
    ELSE IF l.k = "dots" THEN <<"  ...">>
    ELSE IF l.k = "empty" THEN <<>>
    ELSE <<l.v>>

IsWs(piece) == piece \in {" ", "  "}

\* str.lstrip and str.strip on pieces
RECURSIVE LStripChars(_)
LStripChars(r) ==
    IF r # <<>> /\ IsWs(Head(r)) THEN LStripChars(Tail(r)) ELSE r

RECURSIVE StripChars(_)
StripChars(r) ==
    LET t == LStripChars(r)
    IN  IF t # <<>> /\ IsWs(t[Len(t)]) THEN StripChars(SubSeq(t, 1, Len(t) - 1)) ELSE t

\* the source line whose pieces are r
UnChars(r) ==
    IF \E line \in FencedAlphabet : SourceChars(line) = r
    THEN CHOOSE line \in FencedAlphabet : SourceChars(line) = r
    ELSE Line(0, "?", 0)

\* What the loader takes a line for: a fence (the line starts with the fence
\* and, stripped, is the fence), what FILE_HEADER_RE, ENTRY_HEADER_RE and
\* LIST_ITEM_RE match, and for the other lines what SOURCE_TEXT_RE finds in
\* them inside a fenced block.
Read(r) ==
    LET t == LStripChars(r) IN
    IF r = <<>> THEN EmptyLine
    ELSE IF r[1] = "fence" /\ StripChars(r) = <<"fence">> THEN FenceLine
    ELSE IF r[1] = "## File: " /\ Len(r) >= 2 THEN FileHeaderLine(r[2])
    ELSE IF /\ Len(r) = 7 /\ r[1] = "### Line " /\ IsNumStr(r[2]) /\ r[3] = " - "
            /\ r[5] = " (" /\ r[7] = ")"
    THEN [k |-> "entry", v |-> [lineno |-> StrNum(r[2]), msg_id |-> r[4], symbol |-> r[6]]]
    ELSE IF /\ Len(t) >= 3 /\ t[1] = "- "
            /\ t[2] \in {"message", "author", "date", "ignored"} /\ t[3] = ": "
    THEN ListItemLine(t[2], IF Len(t) >= 4 THEN t[4] ELSE "")
    ELSE IF Len(r) >= 3 /\ r[1] \in {"> ", "  "} /\ IsNumStr(r[2]) /\ r[3] = ":"
    THEN IF Len(r) = 3 THEN SrcLine(r[1] = "> ", StrNum(r[2]), FALSE, Line(0, "", 0))
         ELSE SrcLine(r[1] = "> ", StrNum(r[2]), TRUE, UnChars(SubSeq(r, 5, Len(r))))
    ELSE IF r = <<"  ...">> THEN DotsLine
    ELSE [k |-> "text", v |-> r[1]]

\* the catalog: W0511 and C0303 on two lines of p.py
FencedItem(msg, lineno) ==
    LET srctxt == read_source_text(fenced_src, lineno, lineno)
        entry  == Entry(msg.msg_id, "p.py", msg.symbol, msg.msg_text, "alice", OldDate,
                        None, Some(srctxt))
    IN  [key |-> Key(entry, RStrip(fenced_src[lineno])), entry |-> entry]

FencedCatalog ==
    <<FencedItem(M1, fenced_targets[1]), FencedItem(M2, fenced_targets[2])>>

FencedInit ==
    /\ pc = "start"
    /\ fenced_src \in SeqsUpTo(FencedAlphabet, MaxFencedLines) \ {<<>>}
    /\ fenced_targets \in (1..Len(fenced_src)) \X (1..Len(fenced_src))
    /\ fenced_file = <<>>
    /\ fenced_out = <<>>
    /\ FencedOthersIdle

\* dump(catalog, catalog_path)
FencedDump ==
    /\ pc = "start"
    /\ LET text == dumps(FencedCatalog)
       IN  fenced_file' = [i \in 1..Len(text) |-> Written(text[i])]
    /\ pc' = "dumped"
    /\ UNCHANGED <<fenced_src, fenced_targets, fenced_out>>
    /\ UNCHANGED fencedOthers

\* list(_iter_entry_values(catalog_path))
FencedIter ==
    /\ pc = "dumped"
    /\ fenced_out' = _iter_entry_values([i \in 1..Len(fenced_file) |-> Read(fenced_file[i])])
    /\ pc' = "iterated"
    /\ UNCHANGED <<fenced_src, fenced_targets, fenced_file>>
    /\ UNCHANGED fencedOthers

FencedNext == FencedDump \/ FencedIter

SpecFenced == FencedInit /\ [][FencedNext]_vars

\* the fenced block of an entry as dumps wrote it
FencedBlockOf(entry) == <<FenceLine>> \o DumpsSrcLines(entry.srctxt[1]) \o <<FenceLine>>

\* C27: whatever the source lines of the windows read like, the loader
\* yields one record for each of the two entries, and the record of an entry
\* holds the whole fenced block written for it, the list items of its own
\* block and the path of its file header: no line of a fenced block was
\* taken for a header, a list item or a closing fence.
C27_FencedBlockConsumedWhole ==
    pc = "iterated" =>
        /\ ~fenced_out.raised
        /\ Len(fenced_out.yields) = Len(FencedCatalog)
        /\ \A k \in 1..Len(FencedCatalog) :
              \E n \in 1..Len(fenced_out.yields) :
                  LET ev    == fenced_out.yields[n]
                      entry == FencedCatalog[k].entry
                  IN  /\ ev["msg_id"] = entry.msg_id
                      /\ ev["lineno"] = entry.srctxt[1].new_lineno
                      /\ ev["path"] = entry.path
                      /\ ev["message"] = entry.msg_text
                      /\ ev["ctx_src_text"] = FencedBlockOf(entry)

\* the window of an entry holds lines that read like a file header, an entry
\* header, a list item and a fence
C27_Witness ==
    /\ pc = "iterated"
    /\ \E i, j \in 1..Len(fenced_src) :
          /\ fenced_src[i] = LikeFence
          /\ fenced_src[j] \in {LikeFileHeader, LikeEntryHeader, LikeListItem}
          /\ fenced_targets[1] # fenced_targets[2]

(***************************************************************************)
(* catalog.py: dump called by two processes on one catalog path.  Both     *)
(* write to the same .tmp name.  A name of the directory stands for a file *)
(* of the disk; a process that has opened a file keeps writing to that     *)
(* file, at its own position, whatever happens to the name.                *)
(***************************************************************************)
Procs == {1, 2}
Other(p) == 3 - p

\* the catalogs of the two processes and their texts
RaceCatalog(p) ==
    IF p = 1 THEN <<DumpItem(M1, "p.py", 1)>>
    ELSE <<DumpItem(M2, "p.py", 2), DumpItem(M1, "q.py", 1)>>

RaceText(p) == dumps(RaceCatalog(p))

\* bytes of a file that were never written
Hole == [k |-> "hole", v |-> ""]

\* write(data) at position off of a file that holds content
WriteAt(content, off, data) ==
    LET end == IF off + Len(data) > Len(content) THEN off + Len(data) ELSE Len(content)
    IN  [i \in 1..end |->
            IF off < i /\ i <= off + Len(data) THEN data[i - off]
            ELSE IF i <= Len(content) THEN content[i]
            ELSE Hole]

\* mutant: the move does not replace a target that exists
Rename_keep_target(paths, src, dst) ==
    [path \in DOMAIN paths |->
        IF path = src THEN 0
        ELSE IF path = dst /\ paths[dst] = 0 THEN paths[src]
        ELSE paths[path]]

\* the rename of shutil.move: dst stands for the file src stood for, src is
\* gone
Rename(paths, src, dst) ==
    [path \in DOMAIN paths |->
        IF path = dst THEN paths[src] ELSE IF path = src THEN 0 ELSE paths[path]]

RaceInit ==
    /\ pc = "run"
    /\ race_pc = [p \in Procs |-> "dump"]
    /\ race_old \in OldTargets
    /\ race_files = IF race_old = None THEN <<>> ELSE <<race_old[1]>>
    /\ race_paths = [path \in DiskPaths |->
                        IF path = DEFAULT_CATALOG_PATH /\ race_old # None THEN 1 ELSE 0]
    /\ race_fd = [p \in Procs |-> [file |-> 0, pos |-> 0]]
    /\ race_overlap = FALSE
    /\ RaceOthersIdle

\* catalog_text = dumps(catalog)
RaceSerialize(p) ==
    /\ race_pc[p] = "dump"
    /\ race_pc' = [race_pc EXCEPT ![p] = "open"]
    /\ UNCHANGED <<pc, race_paths, race_files, race_fd, race_overlap, race_old>>
    /\ UNCHANGED raceOthers

\* tmp_path.open(mode="w"): the file the name stands for is truncated, or a
\* new file is made under the name
RaceOpen(p) ==
    /\ race_pc[p] = "open"
    /\ LET tmp == tmp_path(DEFAULT_CATALOG_PATH)
           f   == IF race_paths[tmp] # 0 THEN race_paths[tmp] ELSE Len(race_files) + 1
       IN  /\ race_files' = IF race_paths[tmp] # 0
                            THEN [race_files EXCEPT ![f] = <<>>]
                            ELSE Append(race_files, <<>>)
           /\ race_paths' = [race_paths EXCEPT ![tmp] = f]
           /\ race_fd' = [race_fd EXCEPT ![p] = [file |-> f, pos |-> 0]]
    /\ race_overlap' = (race_overlap \/ race_pc[Other(p)] \in {"write", "rest", "move"})
    /\ race_pc' = [race_pc EXCEPT ![p] = "write"]
    /\ UNCHANGED <<pc, race_old>>
    /\ UNCHANGED raceOthers

\* fobj.write(catalog_text) and the close: a part of the text reaches the
\* file first, or all of it
RaceWrite(p) ==
    /\ race_pc[p] \in {"write", "rest"}
    /\ LET f    == race_fd[p].file
           pos  == race_fd[p].pos
           text == RaceText(p)
       IN  \/ /\ race_pc[p] = "write"
              /\ \E n \in 1..(Len(text) - 1) :
                    /\ race_files' = [race_files EXCEPT
                                         ![f] = WriteAt(@, pos, SubSeq(text, 1, n))]
                    /\ race_fd' = [race_fd EXCEPT ![p].pos = n]
              /\ race_pc' = [race_pc EXCEPT ![p] = "rest"]
           \/ /\ race_files' = [race_files EXCEPT
                                   ![f] = WriteAt(@, pos, SubSeq(text, pos + 1, Len(text)))]
              /\ race_fd' = [race_fd EXCEPT ![p].pos = Len(text)]
              /\ race_pc' = [race_pc EXCEPT ![p] = "move"]
    /\ UNCHANGED <<pc, race_paths, race_overlap, race_old>>
    /\ UNCHANGED raceOthers

\* shutil.move(tmp_path, catalog_path): FileNotFoundError when the .tmp name
\* is gone
RaceMove(p) ==
    /\ race_pc[p] = "move"
    /\ LET tmp == tmp_path(DEFAULT_CATALOG_PATH)
       IN  IF race_paths[tmp] = 0
           THEN /\ race_pc' = [race_pc EXCEPT ![p] = "OSError"]
                /\ UNCHANGED race_paths
           ELSE /\ race_paths' = Rename(race_paths, tmp, DEFAULT_CATALOG_PATH)
                /\ race_pc' = [race_pc EXCEPT ![p] = "done"]
    /\ UNCHANGED <<pc, race_files, race_fd, race_overlap, race_old>>
    /\ UNCHANGED raceOthers

RaceNext ==
    \E p \in Procs : RaceSerialize(p) \/ RaceOpen(p) \/ RaceWrite(p) \/ RaceMove(p)

SpecRace == RaceInit /\ [][RaceNext]_vars

\* what the catalog file holds
RaceTarget ==
    IF race_paths[DEFAULT_CATALOG_PATH] = 0 THEN None
    ELSE Some(race_files[race_paths[DEFAULT_CATALOG_PATH]])

\* no process has failed, the catalog file holds what it held before or the
\* whole text of one of the two catalogs, and the text of one of them when
\* both processes are through
RaceWhole ==
    /\ \A p \in Procs : race_pc[p] # "OSError"
    /\ RaceTarget \in {race_old, Some(RaceText(1)), Some(RaceText(2))}
    /\ (\A p \in Procs : race_pc[p] = "done")
          => RaceTarget \in {Some(RaceText(1)), Some(RaceText(2))}

\* C28 as stated: in every interleaving of the steps of the two processes
\* both calls complete without error and the catalog file holds the whole
\* text of one of the two catalogs, never a mixture, a part or nothing.
C28_ConcurrentDumpsLeaveOneText ==
    RaceWhole

\* C28, amended: the same, for the interleavings in which no process opens
\* the .tmp file while the other is between its open and its move.
C28_SerialDumpsLeaveOneText ==
    ~race_overlap => RaceWhole

\* both processes are through without having overlapped, the second after
\* the first had serialized, and the catalog file held another text before
C28_Witness ==
    /\ \A p \in Procs : race_pc[p] = "done"
    /\ ~race_overlap
    /\ race_old # None
    /\ RaceTarget # race_old

(***************************************************************************)
(* catalog.py: load, one iteration of one of its loops at a time.  The     *)
(* loops are the parser (_iter_entry_values), the consumption of a fenced  *)
(* block (_parse_ctx_src_text), the offsets of find_source_text_lineno     *)
(* and the upward scan of read_source_text.  The code runs on by itself,   *)
(* so a step that can be taken is taken.                                   *)
(***************************************************************************)
MaxTermBlocks == 2
MaxTermLines == 3

\* an entry of p.py on an indented line, the same with its closing fence
\* missing, and an entry without a file header
TermBlocks ==
    {Block(Some("p.py"), 2, LaInd, TRUE, M1, None, "none"),
     Block(Some("p.py"), 2, LaInd, TRUE, M2, None, "unterminated fence"),
     Block(None, 1, LaInd, TRUE, M1, None, "none")}

TermAlphabet == {LaInd, LDef}

\* maybe_def_idx -= 1, mutant: the index stays
NextDefIdx_stuck(maybe_def_idx) == maybe_def_idx

\* maybe_def_idx -= 1
NextDefIdx(maybe_def_idx) == maybe_def_idx - 1

\* entry_vals after a header line that is line i of the catalog file
TakeHeader(ev, line, i) ==
    IF IsFileHeader(line) THEN EvPut(NoVals, "path", line.v)
    ELSE EvPut(EvPut(EvPut(EvPut(ev,
             "catalog_lineno", i),
             "lineno", line.v.lineno),
             "msg_id", line.v.msg_id),
             "symbol", line.v.symbol)

\* where load goes after a round with this outcome
AfterRound(outcome) == IF outcome \in Raises THEN "raised" ELSE "resume"

\* the outcome of a round in which KeyError was raised
KeyErrorOutcome(entry_vals) ==
    IF "path" \in DOMAIN entry_vals THEN "logged" ELSE "KeyError"

TermLocals == <<term_fence, term_offset, term_lineno, term_idx>>

TermInit ==
    /\ pc = "run"
    /\ \E bs \in SeqsUpTo(TermBlocks, MaxTermBlocks) : term_file = CatalogLines(bs)
    /\ term_src \in SeqsUpTo(TermAlphabet, MaxTermLines)
    /\ term_at = "iter"
    /\ term_i = 0
    /\ term_ev = NoVals
    /\ term_pending = NoVals
    /\ term_resume = "header"
    /\ term_fence = 0 /\ term_offset = 0 /\ term_lineno = 0 /\ term_idx = 0
    /\ term_out = <<>>
    /\ TermOthersIdle

\* the end of the catalog file: StopIteration is caught and the last
\* entry_vals are yielded if they hold a msg_id
TermEndOfFile ==
    /\ term_resume' = "eof"
    /\ IF "msg_id" \in DOMAIN term_ev
       THEN term_at' = "init" /\ term_pending' = term_ev
       ELSE term_at' = "done" /\ UNCHANGED term_pending
    /\ UNCHANGED <<term_i, term_ev, term_fence>>

\* one iteration of the while loop of _iter_entry_values
TermIter ==
    /\ term_at = "iter"
    /\ IF term_i = Len(term_file) THEN TermEndOfFile
       ELSE LET i    == term_i + 1
                line == term_file[i]
            IN  /\ term_i' = i
                /\ IF line.k = "fence"
                   THEN /\ term_at' = "fence"
                        /\ term_fence' = i
                        /\ UNCHANGED <<term_ev, term_pending, term_resume>>
                   ELSE IF (IsFileHeader(line) \/ IsEntryHeader(line))
                           /\ "msg_id" \in DOMAIN term_ev
                   THEN /\ term_at' = "init"
                        /\ term_pending' = term_ev
                        /\ term_resume' = "header"
                        /\ UNCHANGED <<term_ev, term_fence>>
                   ELSE /\ term_at' = "iter"
                        /\ term_ev' = IF IsFileHeader(line) \/ IsEntryHeader(line)
                                      THEN TakeHeader(term_ev, line, i)
                                      ELSE IF IsListItem(line)
                                      THEN EvPut(term_ev, line.v.key, line.v.value)
                                      ELSE term_ev
                        /\ UNCHANGED <<term_pending, term_resume, term_fence>>
    /\ UNCHANGED <<pc, term_file, term_src, term_offset, term_lineno, term_idx, term_out>>
    /\ UNCHANGED termOthers

\* one iteration of the while loop of _parse_ctx_src_text
TermFence ==
    /\ term_at = "fence"
    /\ IF term_i = Len(term_file) THEN TermEndOfFile
       ELSE LET i == term_i + 1
            IN  /\ term_i' = i
                /\ IF term_file[i].k = "fence"
                   THEN /\ term_at' = "iter"
                        /\ term_ev' = EvPut(term_ev, "ctx_src_text",
                                            SubSeq(term_file, term_fence, i))
                   ELSE /\ term_at' = "fence"
                        /\ UNCHANGED term_ev
                /\ UNCHANGED <<term_pending, term_resume, term_fence>>
    /\ UNCHANGED <<pc, term_file, term_src, term_offset, term_lineno, term_idx, term_out>>
    /\ UNCHANGED termOthers

\* the round of load up to the loop of find_source_text_lineno
TermInitEntry ==
    /\ term_at = "init"
    /\ LET ev      == term_pending
           matched == IF "ctx_src_text" \in DOMAIN ev
                      THEN SourceTextMatch(ev["ctx_src_text"]) ELSE None
           outcome == IF "ctx_src_text" \notin DOMAIN ev THEN KeyErrorOutcome(ev)
                      ELSE IF matched = None THEN "obsolete"
                      ELSE IF "path" \notin DOMAIN ev THEN KeyErrorOutcome(ev)
                      ELSE IF ev["path"] # "p.py" THEN "OSError"
                      ELSE "none"
       IN  IF outcome = "none"
           THEN /\ term_at' = "find"
                /\ term_offset' = 0
                /\ UNCHANGED term_out
           ELSE /\ term_at' = AfterRound(outcome)
                /\ term_out' = Append(term_out, outcome)
                /\ UNCHANGED term_offset
    /\ UNCHANGED <<pc, term_file, term_src, term_i, term_ev, term_pending, term_resume,
                   term_fence, term_lineno, term_idx>>
    /\ UNCHANGED termOthers

\* one iteration of the loop over range(100) of find_source_text_lineno,
\* and the start of read_source_text when a line matches
TermFind ==
    /\ term_at = "find"
    /\ LET text == SourceTextMatch(term_pending["ctx_src_text"])[1]
           lo   == (term_pending["lineno"] - 1) - term_offset
           hi   == (term_pending["lineno"] - 1) + term_offset
           hits == {line_idx \in {lo, hi} : is_matching_line(term_src, line_idx, text)}
       IN  IF hits # {}
           THEN /\ \E line_idx \in hits :
                      /\ term_lineno' = line_idx + 1
                      /\ term_idx' = line_idx
                /\ term_at' = "scan"
                /\ UNCHANGED <<term_offset, term_out>>
           ELSE IF term_offset + 1 < SearchRange
           THEN /\ term_offset' = term_offset + 1
                /\ UNCHANGED <<term_at, term_lineno, term_idx, term_out>>
           ELSE /\ term_at' = AfterRound("obsolete")
                /\ term_out' = Append(term_out, "obsolete")
                /\ UNCHANGED <<term_offset, term_lineno, term_idx>>
    /\ UNCHANGED <<pc, term_file, term_src, term_i, term_ev, term_pending, term_resume,
                   term_fence>>
    /\ UNCHANGED termOthers

\* one iteration of the while loop of read_source_text, and the rest of
\* the round when the loop is left
TermScan ==
    /\ term_at = "scan"
    /\ LET line   == term_src[term_idx + 1]
           target == term_src[term_lineno]
           break  == /\ ~IsBlank(line)
                     /\ IndentLvl(line) < IndentLvl(target)
                     /\ line.tok \in DeclTokens
           outcome == IF {"message", "author", "date"} \ DOMAIN term_pending # {}
                      THEN KeyErrorOutcome(term_pending) ELSE "loaded"
       IN  IF term_idx > 0 /\ ~break
           THEN /\ term_idx' = NextDefIdx(term_idx)
                /\ UNCHANGED <<term_at, term_out>>
           ELSE /\ term_at' = AfterRound(outcome)
                /\ term_out' = Append(term_out, outcome)
                /\ UNCHANGED term_idx
    /\ UNCHANGED <<pc, term_file, term_src, term_i, term_ev, term_pending, term_resume,
                   term_fence, term_offset, term_lineno>>
    /\ UNCHANGED termOthers

\* the generator goes on after its yield
TermResume ==
    /\ term_at = "resume"
    /\ IF term_resume = "eof"
       THEN term_at' = "done" /\ UNCHANGED term_ev
       ELSE IF "path" \notin DOMAIN term_ev
       THEN term_at' = "raised" /\ UNCHANGED term_ev
       ELSE /\ term_at' = "iter"
            /\ term_ev' = TakeHeader(EvPut(NoVals, "path", term_ev["path"]),
                                     term_file[term_i], term_i)
    /\ UNCHANGED <<pc, term_file, term_src, term_i, term_pending, term_resume, term_out>>
    /\ UNCHANGED TermLocals
    /\ UNCHANGED termOthers

TermNext ==
    TermIter \/ TermFence \/ TermInitEntry \/ TermFind \/ TermScan \/ TermResume

SpecTerm == TermInit /\ [][TermNext]_vars /\ WF_vars(TermNext)

TermOver == term_at \in {"done", "raised"}

\* C29: load comes to an end, returning or raising, on every catalog file
\* and every source file; the parser hands out every catalog line once and
\* in order, relocation tests offsets below 100 only, and the scan for the
\* enclosing header moves upward with every iteration.
C29_LoadTerminates ==
    /\ <>TermOver
    /\ [](term_i <= Len(term_file))
    /\ [][term_i' = term_i \/ (term_i' = term_i + 1 /\ term_at \in {"iter", "fence"})]_vars
    /\ [](term_offset < SearchRange)
    /\ [][term_at = "scan" /\ term_at' = "scan" => term_idx' < term_idx]_vars

\* load is over on a catalog file with a fence that is never closed, after
\* an anchor was searched at all offsets and not found and after the scan
\* for a header ran
C29_Witness ==
    /\ TermOver
    /\ Cardinality({i \in 1..Len(term_file) : term_file[i].k = "fence"}) % 2 = 1
    /\ "obsolete" \in {term_out[r] : r \in 1..Len(term_out)}
    /\ term_offset = SearchRange - 1

(***************************************************************************)
(* The path the source cache gives up when it is full.                     *)
(***************************************************************************)
\* the number of the latest call for a path
LastUse(path) == Max({k \in 1..Len(cache_log) : cache_log[k].path = path})

\* the cached path whose latest call is the oldest
LeastRecentlyUsed ==
    CHOOSE path \in CachedPaths(src_cache) :
        \A other \in CachedPaths(src_cache) : LastUse(path) <= LastUse(other)

\* C30: a call for a path that is not cached, made when the cache holds 3
\* paths, removes the least recently used path from the cache and no other,
\* so the two paths requested most recently before the call stay cached.
C30_EvictsLeastRecentlyUsed ==
    [][(/\ Len(src_cache) = 3
        /\ Len(cache_log') = Len(cache_log) + 1
        /\ ~cache_log'[Len(cache_log')].hit)
       => CachedPaths(src_cache) \ CachedPaths(src_cache') = {LeastRecentlyUsed}]_vars

====
